---- MODULE Spec2Model ----
(***************************************************************************)
(* k-context: the inference-routing pipeline.                              *)
(*   audit chain      k-chain.js      (src/unnamed/part_004)               *)
(*   credential pool  k-pool.js       (src/src/k-inference.js, 239-501)    *)
(*   executor         k-execute.js    (src/src/index.js, 73-359)           *)
(*   transports       k-server.js, cli.js (src/unnamed/part_003)           *)
(*                                                                         *)
(* JavaScript values are tagged tuples, so that values of different       *)
(* JavaScript types can be compared:                                       *)
(*   <<"undefined">>, <<"null">>, <<"number", n>>, <<"string", s>>,        *)
(*   <<"text", chars>> (a string kept as its sequence of characters),      *)
(*   <<"iso", t>> (Date#toISOString of clock reading t),                   *)
(*   <<"sha256", c>> (the digest string of content c),                     *)
(*   <<"boolean", b>>, <<"object", members>>.                              *)
(* An object's members are a sequence of <<key, value>> pairs in insertion *)
(* order, which is the order JSON.stringify writes them in.                *)
(***************************************************************************)
EXTENDS Integers, Sequences, FiniteSets, TLC

VARIABLES
  now,        \* the wall clock, in ticks
  chainFile,  \* golden_chain.json
  poolFile,   \* api-pool.json
  configDir,  \* whether the directory ~/.k-context exists
  tampered,   \* the block of chainFile edited outside the program (0: none)
  calls,      \* the calls of other processes between their load and their save
  last        \* the last call made and what it returned

vars == <<now, chainFile, poolFile, configDir, tampered, calls, last>>

(***************************************************************************)
(* Bounds of the model.                                                    *)
(***************************************************************************)
MaxNow == 1
MaxChainNow == 1
MaxBlocks == 3
MaxTamperBlocks == 2
MaxKeys == 2
MaxUsage == 1000000
MaxPipeKeys == 1
MaxPipeBlocks == 1
MaxPipeUsage == 200
MaxBatch == 2
ScenarioTokens == 10000
MaxExecKeys == 2

(***************************************************************************)
(* JavaScript values.                                                      *)
(***************************************************************************)
Undefined == <<"undefined">>
Null == <<"null">>
Num(n) == <<"number", n>>
Str(s) == <<"string", s>>
Text(chars) == <<"text", chars>>
Iso(t) == <<"iso", t>>
Obj(members) == <<"object", members>>

IsString(v) == v[1] \in {"string", "text", "iso", "sha256"}

\* ToBoolean: undefined, null, 0 and the empty string are falsy
Truthy(v) ==
  CASE v[1] = "undefined" -> FALSE
    [] v[1] = "null" -> FALSE
    [] v[1] = "number" -> v[2] # 0
    [] v[1] = "string" -> v[2] # ""
    [] v[1] = "text" -> Len(v[2]) > 0
    [] v[1] = "boolean" -> v[2]
    [] OTHER -> TRUE

\* a || b
OrElse(a, b) == IF Truthy(a) THEN a ELSE b

Has(o, k) == \E i \in DOMAIN o : o[i][1] = k

\* o[k], undefined when o has no own member k
Get(o, k) ==
  IF Has(o, k) THEN o[CHOOSE i \in DOMAIN o : o[i][1] = k][2] ELSE Undefined

\* o[k] = v: an existing member keeps its place, a new one goes last
Put(o, k, v) ==
  IF Has(o, k)
  THEN [i \in DOMAIN o |-> IF o[i][1] = k THEN <<k, v>> ELSE o[i]]
  ELSE Append(o, <<k, v>>)

\* { ...o, ...src }
RECURSIVE Spread(_, _)
Spread(o, src) ==
  IF src = <<>> THEN o
  ELSE Spread(Put(o, Head(src)[1], Head(src)[2]), Tail(src))

\* v?.k
OptGet(v, k) == IF v[1] = "object" THEN Get(v[2], k) ELSE Undefined

IsDefined(member) == member[2] # Undefined

\* JSON.stringify of an object of primitives: members in order, the
\* undefined-valued ones left out.  JSON.parse gives the same members back.
Stringify(o) == SelectSeq(o, IsDefined)

\* createHash('sha256').update(content).digest('hex').slice(0, 16), taken
\* as collision-free: the digest stands for its content
Digest(content) == <<"sha256", content>>

ZeroHash == Str("0000000000000000")

\* today = now.toISOString().split('T')[0]
TicksPerDay == 1
Today(t) == t \div TicksPerDay
DateStr(t) == <<"date", Today(t)>>

\* the one element of a set of one
The(S) == CHOOSE x \in S : TRUE

(***************************************************************************)
(* K-Chain: the golden chain (k-chain.js).                                 *)
(***************************************************************************)
\* a chain document that holds no blocks
EmptyChain(t) ==
  [blocks |-> <<>>,
   metadata |-> <<<<"created", Iso(t)>>, <<"version", Str("0.4.0")>>>>]

\* ensureChainDir, called by every load and save of the chain, creates
\* ~/.k-context/chain and with it ~/.k-context
ensureChainDir(dir) == TRUE

\* the chain file: missing, a parsable document, or an unparsable one
NoChainFile ==
  [state |-> "missing", blocks |-> <<>>, metadata |-> <<>>]

loadChain(file, t) ==
  IF file.state = "ok"
  THEN [blocks |-> file.blocks, metadata |-> file.metadata]
  ELSE EmptyChain(t)

\* writeFileSync(CHAIN_FILE, JSON.stringify(chain, null, 2))
saveChain(chain) ==
  [state |-> "ok",
   blocks |-> [i \in DOMAIN chain.blocks |-> Stringify(chain.blocks[i])],
   metadata |-> Stringify(chain.metadata)]

hashBlock(block, prevHash) ==
  Digest(Stringify(Put(block, "prevHash", prevHash)))

\* the block logExchange builds, before it is hashed
newBlock(chain, t, query, response, kVector, metadata) ==
  Spread(
    << <<"id", Num(Len(chain.blocks) + 1)>>,
       <<"timestamp", Iso(t)>>,
       <<"query", query>>,
       <<"response",
         IF IsString(response) THEN response ELSE OptGet(response, "response")>>,
       <<"kVector", OrElse(OptGet(kVector, "shorthand"), kVector)>>,
       <<"suit", OptGet(kVector, "suit")>>,
       <<"polarity", OptGet(kVector, "polarity")>>,
       <<"rank", OptGet(kVector, "rank")>>,
       <<"tier", OrElse(Get(metadata, "tier"), Str("unknown"))>>,
       <<"tokens", OrElse(Get(metadata, "tokens"), Num(0))>> >>,
    metadata)

\* logExchange linking every block to the zero sentinel
logExchangeUnlinked(file, t, query, response, kVector, metadata) ==
  LET chain == loadChain(file, t)
      block0 == newBlock(chain, t, query, response, kVector, metadata)
      block1 == Put(block0, "hash", hashBlock(block0, ZeroHash))
      block == Put(block1, "prevHash", ZeroHash)
      blocks == Append(chain.blocks, block)
      meta == Put(Put(chain.metadata, "lastUpdated", Iso(t)),
                  "blockCount", Num(Len(blocks)))
  IN [file |-> saveChain([blocks |-> blocks, metadata |-> meta]),
      block |-> block]

\* logExchange keeping only the newest block of the chain it extends
logExchangeRotating(file, t, query, response, kVector, metadata) ==
  LET chain == loadChain(file, t)
      n == Len(chain.blocks)
      prevHash == IF n > 0 THEN Get(chain.blocks[n], "hash") ELSE ZeroHash
      block0 == newBlock(chain, t, query, response, kVector, metadata)
      block1 == Put(block0, "hash", hashBlock(block0, prevHash))
      block == Put(block1, "prevHash", prevHash)
      blocks == Append(IF n > 1 THEN <<chain.blocks[n]>> ELSE chain.blocks,
                       block)
      meta == Put(Put(chain.metadata, "lastUpdated", Iso(t)),
                  "blockCount", Num(Len(blocks)))
  IN [file |-> saveChain([blocks |-> blocks, metadata |-> meta]),
      block |-> block]

\* logExchange: the chain it saves and the block it returns
logExchange(file, t, query, response, kVector, metadata) ==
  LET chain == loadChain(file, t)
      n == Len(chain.blocks)
      prevHash == IF n > 0 THEN Get(chain.blocks[n], "hash") ELSE ZeroHash
      block0 == newBlock(chain, t, query, response, kVector, metadata)
      block1 == Put(block0, "hash", hashBlock(block0, prevHash))
      block == Put(block1, "prevHash", prevHash)
      blocks == Append(chain.blocks, block)
      meta == Put(Put(chain.metadata, "lastUpdated", Iso(t)),
                  "blockCount", Num(Len(blocks)))
  IN [file |-> saveChain([blocks |-> blocks, metadata |-> meta]),
      block |-> block]

\* { ...block, prevHash: undefined }: the stored hash stays in the content
unhashedKeepsHash(block) == Put(block, "prevHash", Undefined)

\* { ...block, hash: undefined, prevHash: undefined }
unhashed(block) == Put(Put(block, "hash", Undefined), "prevHash", Undefined)

\* a verifyChain that takes the previous hash from the block itself
prevHashStored(blocks, i) == Get(blocks[i], "prevHash")

\* the hash the loop of verifyChain compares block i against
prevHashAt(blocks, i) ==
  IF i = 1 THEN ZeroHash ELSE Get(blocks[i - 1], "hash")

\* the messages of a verifyChain that checks the links only
blockErrorsLinksOnly(blocks, i) ==
  IF Get(blocks[i], "prevHash") # prevHashAt(blocks, i)
  THEN << <<Get(blocks[i], "id"), "prevHash mismatch">> >> ELSE <<>>

\* the messages verifyChain pushes for block i, each as <<block.id, text>>
blockErrors(blocks, i) ==
  LET block == blocks[i]
      prevHash == prevHashAt(blocks, i)
  IN (IF Get(block, "prevHash") # prevHash
      THEN << <<Get(block, "id"), "prevHash mismatch">> >> ELSE <<>>)
     \o
     (IF Get(block, "hash") # hashBlock(unhashed(block), prevHash)
      THEN << <<Get(block, "id"), "hash mismatch">> >> ELSE <<>>)

RECURSIVE chainErrors(_, _)
chainErrors(blocks, i) ==
  IF i > Len(blocks) THEN <<>>
  ELSE blockErrors(blocks, i) \o chainErrors(blocks, i + 1)

\* verifyChain: <<valid, errors>>
verifyChain(file, t) ==
  LET blocks == loadChain(file, t).blocks
      errors == chainErrors(blocks, 1)
  IN IF Len(blocks) = 0 THEN <<TRUE, <<>>>> ELSE <<errors = <<>>, errors>>

UpperCase ==
  <<"A", "B", "C", "D", "E", "F", "G", "H", "I", "J", "K", "L", "M",
    "N", "O", "P", "Q", "R", "S", "T", "U", "V", "W", "X", "Y", "Z">>
LowerCase ==
  <<"a", "b", "c", "d", "e", "f", "g", "h", "i", "j", "k", "l", "m",
    "n", "o", "p", "q", "r", "s", "t", "u", "v", "w", "x", "y", "z">>

\* String#toLowerCase, on a sequence of characters
toLowerCase(chars) ==
  [i \in DOMAIN chars |->
     IF \E j \in DOMAIN UpperCase : UpperCase[j] = chars[i]
     THEN LowerCase[CHOOSE j \in DOMAIN UpperCase : UpperCase[j] = chars[i]]
     ELSE chars[i]]

\* String#includes
includes(chars, part) ==
  \E i \in 0..(Len(chars) - Len(part)) :
    SubSeq(chars, i + 1, i + Len(part)) = part

\* blocks.slice(-count); slice(-0) is slice(0)
sliceLast(blocks, count) ==
  IF count = 0 \/ count >= Len(blocks) THEN blocks
  ELSE SubSeq(blocks, Len(blocks) - count + 1, Len(blocks))

getRecent(file, t, count) == sliceLast(loadChain(file, t).blocks, count)

RECURSIVE sumTokens(_)
sumTokens(blocks) ==
  IF blocks = <<>> THEN 0
  ELSE OrElse(Get(Head(blocks), "tokens"), Num(0))[2] + sumTokens(Tail(blocks))

\* getChainStats: <<total, tokens, firstBlock, lastBlock, byTier>>
getChainStats(file, t) ==
  LET blocks == loadChain(file, t).blocks
      tierOf(i) == OrElse(Get(blocks[i], "tier"), Str("unknown"))
      tiers == {tierOf(i) : i \in DOMAIN blocks}
  IN IF Len(blocks) = 0 THEN <<0, 0, Undefined, Undefined, <<>>>>
     ELSE <<Len(blocks), sumTokens(blocks),
            Get(blocks[1], "timestamp"), Get(blocks[Len(blocks)], "timestamp"),
            [x \in tiers |-> Cardinality({i \in DOMAIN blocks : tierOf(i) = x})]>>

\* block.query?.toLowerCase().includes(term)
fieldIncludes(block, k, term) ==
  /\ Get(block, k)[1] = "text"
  /\ includes(toLowerCase(Get(block, k)[2]), term)

searchChain(file, t, searchTerm) ==
  LET term == toLowerCase(searchTerm)
      hit(block) == fieldIncludes(block, "query", term)
                      \/ fieldIncludes(block, "response", term)
  IN SelectSeq(loadChain(file, t).blocks, hit)

getByKVector(file, t, pattern) ==
  LET hit(block) ==
        /\ Truthy(Get(block, "kVector"))
        /\ \/ Get(block, "kVector") = pattern
           \/ Get(block, "suit") = pattern
           \/ Get(block, "polarity") = pattern
  IN SelectSeq(loadChain(file, t).blocks, hit)

\* exportChain: what the rendering is made from
exportChain(file, t, format) ==
  LET chain == loadChain(file, t)
      stats == getChainStats(file, t)
  IN CASE format = "md" -> <<"md", stats, sliceLast(chain.blocks, 20)>>
       [] format = "redacted" ->
            <<"redacted", stats, verifyChain(file, t), chain.blocks>>
       [] OTHER -> <<"json", chain.blocks, chain.metadata>>

(***************************************************************************)
(* The calls made on the chain.                                            *)
(***************************************************************************)
\* a Tag as classifyQuery returns it (the members logExchange reads)
Tag(suit, polarity, rank, shorthand) ==
  Obj(<< <<"suit", Str(suit)>>, <<"polarity", Str(polarity)>>,
         <<"rank", Num(rank)>>, <<"shorthand", Str(shorthand)>> >>)

NumExchanges == 4

\* the arguments of the calls of logExchange:
\*  1  infer, a template answer       2  cli ask, an api answer
\*  3  infer, a local answer whose data.response is missing
\*  4  a direct call, the result object and a shorthand string, no metadata
Exchange(p) ==
  CASE p = 1 ->
         [query |-> Text(<<"H", "i">>),
          response |-> Text(<<"O", "k">>),
          kVector |-> Tag("hearts", "-", 6, "-6H"),
          metadata |-> << <<"tier", Str("template")>>, <<"tokens", Num(0)>>,
                          <<"cost", Num(0)>> >>]
    [] p = 2 ->
         [query |-> Text(<<"o", "h">>),
          response |-> Text(<<"h", "m">>),
          kVector |-> Tag("unknown", "~", 7, "~7U"),
          metadata |-> << <<"tier", Str("api")>>, <<"tokens", Num(100)>> >>]
    [] p = 3 ->
         [query |-> Text(<<"H", "i">>),
          response |-> Undefined,
          kVector |-> Tag("spades", "+", 9, "+9S"),
          metadata |-> << <<"tier", Str("local")>>, <<"tokens", Num(0)>>,
                          <<"cost", Num(0)>> >>]
    [] OTHER ->
         [query |-> Text(<<"o", "k">>),
          response |-> Obj(<< <<"response", Text(<<"h", "m">>)>>,
                              <<"tier", Str("local")>> >>),
          kVector |-> Str("+9S"),
          metadata |-> <<>>]

SearchTerms == {<<"H">>, <<"o", "k">>}
KPatterns == {Str("hearts"), Str("+9S"), Str("~")}
ExportFormats == {"md", "redacted", "json"}

\* the clock advances, up to reading max
TickUpTo(max) ==
  /\ now < max
  /\ now' = now + 1
  /\ last' = <<"tick">>
  /\ UNCHANGED <<calls, chainFile, poolFile, configDir, tampered>>

\* a call of logExchange on a chain of fewer than max blocks
LogExchangeUpTo(max) ==
  /\ Len(chainFile.blocks) < max
  /\ \E p \in 1..NumExchanges :
       LET e == Exchange(p)
           r == logExchange(chainFile, now, e.query, e.response, e.kVector,
                            e.metadata)
       IN /\ chainFile' = r.file
          /\ last' = <<"logExchange", r.block>>
  /\ configDir' = ensureChainDir(configDir)
  /\ UNCHANGED <<calls, now, poolFile, tampered>>

VerifyChain ==
  /\ last' = <<"verifyChain", verifyChain(chainFile, now)>>
  /\ configDir' = ensureChainDir(configDir)
  /\ UNCHANGED <<calls, now, chainFile, poolFile, tampered>>

GetRecent ==
  /\ \E count \in 0..2 : last' = <<"getRecent", getRecent(chainFile, now, count)>>
  /\ configDir' = ensureChainDir(configDir)
  /\ UNCHANGED <<calls, now, chainFile, poolFile, tampered>>

GetChainStats ==
  /\ last' = <<"getChainStats", getChainStats(chainFile, now)>>
  /\ configDir' = ensureChainDir(configDir)
  /\ UNCHANGED <<calls, now, chainFile, poolFile, tampered>>

SearchChain ==
  /\ \E term \in SearchTerms :
       last' = <<"searchChain", searchChain(chainFile, now, term)>>
  /\ configDir' = ensureChainDir(configDir)
  /\ UNCHANGED <<calls, now, chainFile, poolFile, tampered>>

GetByKVector ==
  /\ \E pattern \in KPatterns :
       last' = <<"getByKVector", getByKVector(chainFile, now, pattern)>>
  /\ configDir' = ensureChainDir(configDir)
  /\ UNCHANGED <<calls, now, chainFile, poolFile, tampered>>

ExportChain ==
  /\ \E format \in ExportFormats :
       last' = <<"exportChain", exportChain(chainFile, now, format)>>
  /\ configDir' = ensureChainDir(configDir)
  /\ UNCHANGED <<calls, now, chainFile, poolFile, tampered>>

\* pool.usage of a pool without keys
NoUsage == [i \in {} |-> [today |-> 0, total |-> 0]]

\* the pool file: missing, a parsable document, or an unparsable one
NoPoolFile ==
  [state |-> "missing", keys |-> <<>>, usage |-> NoUsage, lastRotation |-> Null]

\* the processes that share the two files beside the one observed: runs of
\* the command line, or the server
Procs == {1, 2}

\* a process that is in no call and has made none
NoCall == [pc |-> "idle", op |-> <<"none">>, doc |-> <<>>, finished |-> <<>>]

Init ==
  /\ now = 0
  /\ chainFile = NoChainFile
  /\ poolFile = NoPoolFile
  /\ configDir = FALSE
  /\ tampered = 0
  /\ calls = [p \in Procs |-> NoCall]
  /\ last = <<"none">>

NextChain ==
  \/ TickUpTo(MaxChainNow)
  \/ LogExchangeUpTo(MaxBlocks)
  \/ VerifyChain
  \/ GetRecent
  \/ GetChainStats
  \/ SearchChain
  \/ GetByKVector
  \/ ExportChain

SpecChain == Init /\ [][NextChain]_vars

Blocks == chainFile.blocks

\* C1: the n-th block appended to an empty chain has id n, the first block's
\* prevHash is the all-zero sentinel and every later block's prevHash is the
\* stored hash of the block before it.
C1_SequentialIdsAndLinks ==
  \A i \in DOMAIN Blocks :
    /\ Get(Blocks[i], "id") = Num(i)
    /\ Get(Blocks[i], "prevHash") =
         (IF i = 1 THEN Str("0000000000000000") ELSE Get(Blocks[i - 1], "hash"))
    /\ Get(Blocks[i], "hash")[1] = "sha256"

C1_Witness ==
  /\ last[1] = "logExchange"
  /\ Len(Blocks) = 3
  /\ Get(last[2], "id") = Num(3)

\* C2: verify() returns valid with no errors for every chain that only
\* appends produced, the empty chain included, read back from the file.
C2_AppendedChainVerifies ==
  /\ verifyChain(chainFile, now) = <<TRUE, <<>>>>
  /\ last[1] = "verifyChain" => last[2] = <<TRUE, <<>>>>

C2_Witness ==
  /\ last[1] = "verifyChain"
  /\ last[2][1] = TRUE
  /\ Len(Blocks) = 3
  /\ \E i \in DOMAIN Blocks : ~Has(Blocks[i], "response")

\* C4: an append adds exactly one block at the end and leaves the blocks
\* stored before it as they were; verify, recent, search, the filter, stats
\* and export leave the chain file unchanged.
C4_AppendOnly ==
  [][IF last'[1] = "logExchange"
     THEN /\ Len(chainFile'.blocks) = Len(Blocks) + 1
          /\ SubSeq(chainFile'.blocks, 1, Len(Blocks)) = Blocks
          /\ chainFile'.blocks[Len(Blocks) + 1] = Stringify(last'[2])
     ELSE chainFile' = chainFile]_vars

C4_Witness ==
  /\ last[1] \in {"getRecent", "searchChain", "getByKVector", "exportChain",
                  "getChainStats"}
  /\ Len(Blocks) = 3

(***************************************************************************)
(* The chain file edited from outside the program.                         *)
(***************************************************************************)
TamperFields ==
  {"query", "response", "suit", "polarity", "rank", "tier", "tokens",
   "timestamp", "hash", "prevHash"}

\* the values an edit may write into a member
TamperValues(k) ==
  CASE k \in {"query", "response"} -> {Text(<<"H", "i">>), Text(<<"n", "o">>)}
    [] k = "suit" -> {Str("hearts"), Str("clubs")}
    [] k = "polarity" -> {Str("+"), Str("-")}
    [] k = "rank" -> {Num(6), Num(13)}
    [] k = "tier" -> {Str("api"), Str("template")}
    [] k = "tokens" -> {Num(0), Num(1)}
    [] k = "timestamp" -> {Iso(0), Iso(1)}
    [] OTHER ->
         {ZeroHash, Str("ffffffffffffffff")}
           \cup {Get(Blocks[i], "hash") : i \in DOMAIN Blocks}

\* one stored member of one block gets another value
Tamper ==
  /\ tampered = 0
  /\ chainFile.state = "ok"
  /\ \E i \in DOMAIN Blocks, k \in TamperFields :
       /\ Has(Blocks[i], k)
       /\ \E v \in TamperValues(k) :
            /\ v # Get(Blocks[i], k)
            /\ chainFile' =
                 [chainFile EXCEPT !.blocks[i] = Put(Blocks[i], k, v)]
            /\ tampered' = i
            /\ last' = <<"tamper", i, k>>
  /\ UNCHANGED <<calls, now, poolFile, configDir>>

NextTamper ==
  \/ TickUpTo(MaxChainNow)
  \/ LogExchangeUpTo(MaxTamperBlocks)
  \/ Tamper
  \/ VerifyChain

SpecTamper == Init /\ [][NextTamper]_vars

\* C3: after the stored value of one member of block k was changed,
\* verify() returns valid=false with an error that names block k's id.
C3_TamperDetected ==
  (last[1] = "verifyChain" /\ tampered # 0) =>
    /\ last[2][1] = FALSE
    /\ \E j \in DOMAIN last[2][2] :
         last[2][2][j][1] = Get(Blocks[tampered], "id")

C3_Witness ==
  /\ last[1] = "verifyChain"
  /\ tampered = 1
  /\ Len(Blocks) = 2
  /\ last[2][2] = << <<Num(1), "hash mismatch">> >>

(***************************************************************************)
(* K-Pool: the API key pool (k-pool.js).                                   *)
(***************************************************************************)
GoogleFreeLimit == 1000000
AnthropicFreeLimit == 0
OpenRouterFreeLimit == 200000
\* Infinity: above every usage a pool of the model records
Infinity == 2147483647

ConfiguredProviders == {"google", "anthropic", "openrouter", "ollama"}

\* PROVIDERS[provider].freeLimit
freeLimit(provider) ==
  CASE provider = "google" -> GoogleFreeLimit
    [] provider = "anthropic" -> AnthropicFreeLimit
    [] provider = "openrouter" -> OpenRouterFreeLimit
    [] provider = "ollama" -> Infinity

loadPool(file) ==
  IF file.state = "ok"
  THEN [keys |-> file.keys, usage |-> file.usage,
        lastRotation |-> file.lastRotation]
  ELSE [keys |-> <<>>, usage |-> NoUsage, lastRotation |-> Null]

\* savePool: the file after the call and whether the call threw.  When the
\* directory is missing it reaches require('fs'), which an ES module does
\* not define: ReferenceError, nothing written.
savePool(file, dir, pool) ==
  IF dir
  THEN [file |-> [state |-> "ok", keys |-> pool.keys, usage |-> pool.usage,
                  lastRotation |-> pool.lastRotation],
        threw |-> FALSE]
  ELSE [file |-> file, threw |-> TRUE]

\* pool.usage[id]?.today || 0
usageToday(pool, id) ==
  IF id \in DOMAIN pool.usage THEN pool.usage[id].today ELSE 0

usageTotal(pool, id) ==
  IF id \in DOMAIN pool.usage THEN pool.usage[id].total ELSE 0

\* pool.usage[id] = u
setUsage(usage, id, u) ==
  [i \in DOMAIN usage \cup {id} |-> IF i = id THEN u ELSE usage[i]]

\* `${provider}-${Date.now()}`
keyId(provider, t) == <<provider, t>>

\* addKey: <<file, thrown, entry>>.  Of the entry the members id, provider,
\* key and healthy are kept; label, addedAt, lastUsed and the entry's own
\* copy of usageToday are written and read by no operation of the pool.
addKey(file, dir, t, provider, key, label) ==
  LET pool == loadPool(file)
      keyEntry == [id |-> keyId(provider, t), provider |-> provider,
                   key |-> key, healthy |-> TRUE]
      saved == savePool(file, dir,
                 [pool EXCEPT !.keys = Append(pool.keys, keyEntry),
                              !.usage = setUsage(pool.usage, keyEntry.id,
                                                 [today |-> 0, total |-> 0])])
  IN <<saved.file, saved.threw, keyEntry>>

\* removeKey: <<file, thrown>>
removeKey(file, dir, id) ==
  LET pool == loadPool(file)
      keep(k) == k.id # id
      saved == savePool(file, dir,
                 [pool EXCEPT !.keys = SelectSeq(pool.keys, keep),
                              !.usage = [i \in DOMAIN pool.usage \ {id} |->
                                           pool.usage[i]]])
  IN <<saved.file, saved.threw>>

\* a daily reset that clears the health flags with the counts
resetDailyAndHealth(pool, today) ==
  LET ids == {pool.keys[i].id : i \in DOMAIN pool.keys}
  IN [pool EXCEPT
        !.keys = [i \in DOMAIN pool.keys |->
                    [pool.keys[i] EXCEPT !.healthy = TRUE]],
        !.usage = [i \in DOMAIN pool.usage \cup ids |->
                     IF i \in ids
                     THEN [today |-> 0, total |-> usageTotal(pool, i)]
                     ELSE pool.usage[i]],
        !.lastRotation = today]

\* the pool after the daily reset of getNextKey
resetDaily(pool, today) ==
  LET ids == {pool.keys[i].id : i \in DOMAIN pool.keys}
  IN [pool EXCEPT
        !.usage = [i \in DOMAIN pool.usage \cup ids |->
                     IF i \in ids
                     THEN [today |-> 0, total |-> usageTotal(pool, i)]
                     ELSE pool.usage[i]],
        !.lastRotation = today]

\* the healthy keys, of the provider when one is given, by their index
candidates(pool, provider) ==
  {i \in DOMAIN pool.keys :
     /\ pool.keys[i].healthy
     /\ Truthy(provider) => Str(pool.keys[i].provider) = provider}

\* candidates[0] without the sort: the first healthy key
firstCandidate(pool, cands) ==
  CHOOSE i \in cands : \A j \in cands : i <= j

\* candidates[0] after the stable sort by usage: the first of the least used
leastUsed(pool, cands) ==
  CHOOSE i \in cands :
    \A j \in cands :
      \/ usageToday(pool, pool.keys[i].id) < usageToday(pool, pool.keys[j].id)
      \/ /\ usageToday(pool, pool.keys[i].id) = usageToday(pool, pool.keys[j].id)
         /\ i <= j

\* getNextKey without the check of the quota
getNextKeyUnchecked(file, dir, t, provider) ==
  LET pool0 == loadPool(file)
      today == DateStr(t)
      stale == pool0.lastRotation # today
      pool == IF stale THEN resetDaily(pool0, today) ELSE pool0
      saved == IF stale THEN savePool(file, dir, pool)
               ELSE [file |-> file, threw |-> FALSE]
      cands == candidates(pool, provider)
      selected == pool.keys[leastUsed(pool, cands)]
  IN IF saved.threw THEN <<saved.file, <<"throw", "ReferenceError">>>>
     ELSE IF cands = {} THEN <<saved.file, <<"local">>>>
     ELSE IF selected.provider \notin ConfiguredProviders
       THEN <<saved.file, <<"throw", "TypeError">>>>
     ELSE <<saved.file, <<"key", selected>>>>

\* getNextKey: <<file, result>>, the result being <<"key", entry>>,
\* <<"local">> or <<"throw", error>>
RECURSIVE getNextKey(_, _, _, _)
getNextKey(file, dir, t, provider) ==
  LET pool0 == loadPool(file)
      today == DateStr(t)
      stale == pool0.lastRotation # today
      pool == IF stale THEN resetDaily(pool0, today) ELSE pool0
      saved == IF stale THEN savePool(file, dir, pool)
               ELSE [file |-> file, threw |-> FALSE]
      cands == candidates(pool, provider)
      sel == leastUsed(pool, cands)
      selected == pool.keys[sel]
      marked == savePool(saved.file, dir,
                         [pool EXCEPT !.keys[sel].healthy = FALSE])
  IN IF saved.threw THEN <<saved.file, <<"throw", "ReferenceError">>>>
     ELSE IF cands = {} THEN <<saved.file, <<"local">>>>
     ELSE IF selected.provider \notin ConfiguredProviders
       THEN <<saved.file, <<"throw", "TypeError">>>>
     ELSE IF usageToday(pool, selected.id) >= freeLimit(selected.provider)
       THEN IF marked.threw THEN <<marked.file, <<"throw", "ReferenceError">>>>
            ELSE getNextKey(marked.file, dir, t, provider)
     ELSE <<saved.file, <<"key", selected>>>>

\* the calls getNextKey makes of itself before it returns or throws
RECURSIVE getNextKeyDepth(_, _, _, _)
getNextKeyDepth(file, dir, t, provider) ==
  LET pool0 == loadPool(file)
      today == DateStr(t)
      stale == pool0.lastRotation # today
      pool == IF stale THEN resetDaily(pool0, today) ELSE pool0
      saved == IF stale THEN savePool(file, dir, pool)
               ELSE [file |-> file, threw |-> FALSE]
      cands == candidates(pool, provider)
      sel == leastUsed(pool, cands)
      selected == pool.keys[sel]
      marked == savePool(saved.file, dir,
                         [pool EXCEPT !.keys[sel].healthy = FALSE])
  IN IF saved.threw \/ cands = {} THEN 0
     ELSE IF selected.provider \notin ConfiguredProviders THEN 0
     ELSE IF usageToday(pool, selected.id) >= freeLimit(selected.provider)
       THEN IF marked.threw THEN 0
            ELSE 1 + getNextKeyDepth(marked.file, dir, t, provider)
     ELSE 0

\* recordUsage counting the tokens for today only
recordUsageTodayOnly(file, dir, t, id, tokens) ==
  LET pool == loadPool(file)
      u == [today |-> usageToday(pool, id) + tokens,
            total |-> usageTotal(pool, id)]
      saved == savePool(file, dir,
                 [pool EXCEPT !.usage = setUsage(pool.usage, id, u)])
  IN <<saved.file, saved.threw>>

\* recordUsage: <<file, thrown>>
recordUsage(file, dir, t, id, tokens) ==
  LET pool == loadPool(file)
      u == [today |-> usageToday(pool, id) + tokens,
            total |-> usageTotal(pool, id) + tokens]
      saved == savePool(file, dir,
                 [pool EXCEPT !.usage = setUsage(pool.usage, id, u)])
  IN <<saved.file, saved.threw>>

\* markUnhealthy: <<file, thrown>>
markUnhealthy(file, dir, id) ==
  LET pool == loadPool(file)
      found == {i \in DOMAIN pool.keys : pool.keys[i].id = id}
      first == CHOOSE i \in found : \A j \in found : i <= j
      saved == savePool(file, dir, [pool EXCEPT !.keys[first].healthy = FALSE])
  IN IF found = {} THEN <<file, FALSE>> ELSE <<saved.file, saved.threw>>

\* resetHealth: <<file, thrown>>
resetHealth(file, dir) ==
  LET pool == loadPool(file)
      saved == savePool(file, dir,
                 [pool EXCEPT !.keys = [i \in DOMAIN pool.keys |->
                                          [pool.keys[i] EXCEPT !.healthy = TRUE]]])
  IN <<saved.file, saved.threw>>

(***************************************************************************)
(* The calls made on the pool.                                             *)
(***************************************************************************)
Pool == loadPool(poolFile)

\* the providers keys are added for
AddedProviders == {"google", "anthropic"}

\* the provider argument of getNextKey (options.provider), null when absent
ProviderFilters == {Null, Str("google")}

\* token counts of a provider response
TokenAmounts == {500000}

PoolIds == {Pool.keys[i].id : i \in DOMAIN Pool.keys}

\* the directory gets created: license.js saveLicense, or a call on the chain
MakeConfigDir ==
  /\ ~configDir
  /\ configDir' = TRUE
  /\ last' = <<"mkdir">>
  /\ UNCHANGED <<calls, now, chainFile, poolFile, tampered>>

AddKey ==
  /\ Len(Pool.keys) < MaxKeys
  /\ \E provider \in AddedProviders :
       LET r == addKey(poolFile, configDir, now, provider, Str("secret"), Null)
       IN /\ poolFile' = r[1]
          /\ last' = <<"addKey", r[2]>>
  /\ UNCHANGED <<calls, now, chainFile, configDir, tampered>>

RemoveKey ==
  /\ \E id \in PoolIds :
       LET r == removeKey(poolFile, configDir, id)
       IN /\ poolFile' = r[1]
          /\ last' = <<"removeKey", r[2]>>
  /\ UNCHANGED <<calls, now, chainFile, configDir, tampered>>

GetNextKey ==
  /\ \E provider \in ProviderFilters :
       LET r == getNextKey(poolFile, configDir, now, provider)
       IN /\ poolFile' = r[1]
          /\ last' = <<"getNextKey", r[2], provider>>
  /\ UNCHANGED <<calls, now, chainFile, configDir, tampered>>

RecordUsage ==
  /\ \E id \in PoolIds, tokens \in TokenAmounts :
       /\ usageTotal(Pool, id) + tokens <= MaxUsage
       /\ LET r == recordUsage(poolFile, configDir, now, id, tokens)
          IN /\ poolFile' = r[1]
             /\ last' = <<"recordUsage", r[2], id, tokens>>
  /\ UNCHANGED <<calls, now, chainFile, configDir, tampered>>

MarkUnhealthy ==
  /\ \E id \in PoolIds :
       LET r == markUnhealthy(poolFile, configDir, id)
       IN /\ poolFile' = r[1]
          /\ last' = <<"markUnhealthy", r[2]>>
  /\ UNCHANGED <<calls, now, chainFile, configDir, tampered>>

ResetHealth ==
  /\ LET r == resetHealth(poolFile, configDir)
     IN /\ poolFile' = r[1]
        /\ last' = <<"resetHealth", r[2]>>
  /\ UNCHANGED <<calls, now, chainFile, configDir, tampered>>

NextPool ==
  \/ TickUpTo(MaxNow)
  \/ MakeConfigDir
  \/ AddKey
  \/ RemoveKey
  \/ GetNextKey
  \/ RecordUsage
  \/ MarkUnhealthy
  \/ ResetHealth

SpecPool == Init /\ [][NextPool]_vars

(***************************************************************************)
(* Properties of the pool.                                                 *)
(***************************************************************************)
\* the entries of the pool whose id is the id of entry k
EntriesOf(pool, k) == {i \in DOMAIN pool.keys : pool.keys[i].id = k.id}

\* entry i is healthy, in the scope of provider, and under its quota
Available(pool, i, provider) ==
  /\ pool.keys[i].healthy
  /\ Truthy(provider) => Str(pool.keys[i].provider) = provider
  /\ usageToday(pool, pool.keys[i].id) < freeLimit(pool.keys[i].provider)

\* C6: getNextKey returns the local sentinel when no healthy key is in scope,
\* and otherwise only a key of the pool that is healthy, in scope, and whose
\* usage today is below its provider's quota.
C6_SentinelOrHealthyKey ==
  [][last'[1] = "getNextKey" =>
       LET result == last'[2]
           provider == last'[3]
           after == loadPool(poolFile')
       IN /\ candidates(Pool, provider) = {} => result = <<"local">>
          /\ result[1] \in {"key", "local"}
          /\ result[1] = "key" =>
               \E i \in DOMAIN after.keys :
                 /\ after.keys[i] = result[2]
                 /\ Available(after, i, provider)]_vars

\* the usage of id has reached the quota of its provider
Exhausted(pool, i) ==
  usageToday(pool, pool.keys[i].id) >= freeLimit(pool.keys[i].provider)

\* C7 as stated: once the usage of a key has reached its quota, getNextKey
\* does not return it until resetHealth is called, the daily reset
\* notwithstanding.
C7_ExhaustedUntilResetHealth ==
  [][\A i \in DOMAIN Pool.keys :
       (Exhausted(Pool, i) /\ last'[1] = "getNextKey")
         => last'[2] # <<"key", Pool.keys[i]>>]_vars

\* C7 amended: getNextKey returns no key whose usage today has reached the
\* quota and no key that was unhealthy, and only it marks keys unhealthy on
\* its own, those it selects with their quota reached; an unhealthy key stays
\* unhealthy while it is in the pool, daily reset included, until
\* resetHealth is called.
C7_UnhealthyUntilResetHealth ==
  [][LET after == loadPool(poolFile')
     IN /\ (last'[1] = "getNextKey" /\ last'[2][1] = "key") =>
             /\ \A i \in EntriesOf(after, last'[2][2]) : ~Exhausted(after, i)
             /\ \E i \in DOMAIN Pool.keys :
                  Pool.keys[i].healthy /\ Pool.keys[i] = last'[2][2]
        /\ last'[1] \notin {"resetHealth", "removeKey", "addKey"} =>
             /\ Len(after.keys) = Len(Pool.keys)
             /\ \A i \in DOMAIN Pool.keys :
                  /\ after.keys[i].id = Pool.keys[i].id
                  /\ ~Pool.keys[i].healthy => ~after.keys[i].healthy
                  /\ (last'[1] = "getNextKey" /\ Pool.keys[i].healthy
                        /\ ~after.keys[i].healthy) => Exhausted(after, i)
        /\ last'[1] = "addKey" =>
             \A i \in DOMAIN Pool.keys : after.keys[i] = Pool.keys[i]
        /\ last'[1] = "removeKey" =>
             \A j \in DOMAIN after.keys :
               \E i \in DOMAIN Pool.keys : after.keys[j] = Pool.keys[i]]_vars

\* a key marked for its quota stays out after the daily reset cleared its count
C7_Witness ==
  /\ last[1] = "getNextKey"
  /\ last[2] = <<"local">>
  /\ Pool.lastRotation = DateStr(1)
  /\ \E i \in DOMAIN Pool.keys :
       /\ ~Pool.keys[i].healthy
       /\ Pool.keys[i].provider = "google"
       /\ usageToday(Pool, Pool.keys[i].id) = 0
       /\ usageTotal(Pool, Pool.keys[i].id) >= GoogleFreeLimit

\* C8: recordUsage(id, t) adds t to the usage today and to the total usage of
\* id, and leaves the usage of every other key, the keys of the pool and
\* their health as they were.
C8_RecordUsageAddsToBoth ==
  [][last'[1] = "recordUsage" =>
       LET id == last'[3]
           t == last'[4]
           after == loadPool(poolFile')
       IN /\ ~last'[2]
          /\ usageToday(after, id) = usageToday(Pool, id) + t
          /\ usageTotal(after, id) = usageTotal(Pool, id) + t
          /\ DOMAIN after.usage = DOMAIN Pool.usage \cup {id}
          /\ \A other \in DOMAIN after.usage \ {id} :
               after.usage[other] = Pool.usage[other]
          /\ after.keys = Pool.keys]_vars

\* usage is recorded for one of two keys, the other having usage of its own
C8_Witness ==
  /\ last[1] = "recordUsage"
  /\ usageToday(Pool, last[3]) = 1000000
  /\ \E other \in PoolIds \ {last[3]} : usageTotal(Pool, other) = 500000

\* C9: the key getNextKey returns has the least usage today of the keys that
\* are healthy, in scope and under their quota.
C9_LeastUsedReturned ==
  (last[1] = "getNextKey" /\ last[2][1] = "key") =>
    \A i \in DOMAIN Pool.keys :
      Available(Pool, i, last[3])
        => usageToday(Pool, last[2][2].id) <= usageToday(Pool, Pool.keys[i].id)

\* the second key is returned, the first having more usage and quota left
C9_Witness ==
  /\ last[1] = "getNextKey"
  /\ last[2][1] = "key"
  /\ Len(Pool.keys) = 2
  /\ last[2][2] = Pool.keys[2]
  /\ Available(Pool, 1, last[3])
  /\ usageToday(Pool, Pool.keys[1].id) > usageToday(Pool, Pool.keys[2].id)

\* the clock has just passed into a new day, and no call was made since
NewDay == last = <<"tick">> /\ now % TicksPerDay = 0

\* C10: the first call on the pool on a new day, getNextKey or recordUsage,
\* starts every count of today from 0.
C10_FirstAccessOfDayResets ==
  [][(/\ NewDay
      /\ \/ last'[1] = "getNextKey" /\ last'[2][1] # "throw"
         \/ last'[1] = "recordUsage" /\ ~last'[2]) =>
       \A i \in DOMAIN Pool.keys :
         usageToday(loadPool(poolFile'), Pool.keys[i].id) =
           IF last'[1] = "recordUsage" /\ last'[3] = Pool.keys[i].id
           THEN last'[4] ELSE 0]_vars

\* C11: no two keys of the pool have the same id, whatever keys were added
\* and removed, keys of one provider added in the same millisecond included.
C11_UniqueIds ==
  \A i \in DOMAIN Pool.keys : \A j \in DOMAIN Pool.keys :
    i # j => Pool.keys[i].id # Pool.keys[j].id

(***************************************************************************)
(* The allocation scenario: two google keys, then getNextKey and           *)
(* recordUsage against the key it returned, over and over on one day.      *)
(* Each recordUsage counts ScenarioTokens tokens.                          *)
(***************************************************************************)
\* a google key is added, in a millisecond no key of the pool was added in
ScenarioAddKey ==
  /\ Len(Pool.keys) < 2
  /\ keyId("google", now) \notin PoolIds
  /\ LET r == addKey(poolFile, configDir, now, "google", Str("secret"), Null)
     IN /\ poolFile' = r[1]
        /\ last' = <<"addKey", r[2]>>
  /\ UNCHANGED <<calls, now, chainFile, configDir, tampered>>

\* the clock advances while the keys are being added
ScenarioTick ==
  /\ Len(Pool.keys) < 2
  /\ TickUpTo(MaxNow)

\* getNextKey, then recordUsage against the key it returned
Allocate ==
  /\ Len(Pool.keys) = 2
  /\ \E provider \in ProviderFilters :
       \E next \in {getNextKey(poolFile, configDir, now, provider)} :
         /\ poolFile' =
              IF next[2][1] = "key"
              THEN recordUsage(next[1], configDir, now, next[2][2].id,
                               ScenarioTokens)[1]
              ELSE next[1]
         /\ last' = <<"allocate", next[2]>>
  /\ UNCHANGED <<calls, now, chainFile, configDir, tampered>>

NextScenario ==
  \/ MakeConfigDir
  \/ ScenarioTick
  \/ ScenarioAddKey
  \/ Allocate

SpecScenario == Init /\ [][NextScenario]_vars

\* the allocations made so far
Allocations ==
  (usageTotal(Pool, Pool.keys[1].id) + usageTotal(Pool, Pool.keys[2].id))
    \div ScenarioTokens

\* the allocations to one key that bring it to the quota of google
Rounds == (GoogleFreeLimit + ScenarioTokens - 1) \div ScenarioTokens

\* C12 as stated: after Rounds + 1 allocations one key is at its quota and
\* unhealthy, and the next getNextKey returns the other key.
C12_OneKeyExhaustedFirst ==
  (Len(Pool.keys) = 2 /\ last[1] = "allocate" /\ Allocations = Rounds + 1) =>
    \E i \in 1..2 :
      /\ ~Pool.keys[i].healthy
      /\ Exhausted(Pool, i)
      /\ getNextKey(poolFile, configDir, now, Null)[2][1] = "key"
      /\ getNextKey(poolFile, configDir, now, Null)[2][2].id = Pool.keys[3 - i].id

\* C12 amended: the allocations alternate between the two keys, each going to
\* a key that has no more usage than the other; after Rounds + 1 of them both
\* keys are healthy and under the quota; a key is unhealthy only once both
\* have reached the quota, after 2 * Rounds allocations, when getNextKey marks
\* the two of them and returns the local sentinel.
C12_AllocationsAlternate ==
  Len(Pool.keys) = 2 =>
    LET u1 == usageToday(Pool, Pool.keys[1].id)
        u2 == usageToday(Pool, Pool.keys[2].id)
    IN /\ u1 - u2 \in {-ScenarioTokens, 0, ScenarioTokens}
       /\ Allocations <= 2 * Rounds
       /\ (last[1] = "allocate" /\ last[2][1] = "key") =>
            /\ \A i \in 1..2 : Pool.keys[i].healthy
            /\ usageToday(Pool, last[2][2].id) - ScenarioTokens <= u1
            /\ usageToday(Pool, last[2][2].id) - ScenarioTokens <= u2
       /\ Allocations = Rounds + 1 =>
            \A i \in 1..2 : Pool.keys[i].healthy /\ ~Exhausted(Pool, i)
       /\ \/ \A i \in 1..2 : Pool.keys[i].healthy
          \/ /\ \A i \in 1..2 : ~Pool.keys[i].healthy /\ Exhausted(Pool, i)
             /\ Allocations = 2 * Rounds
             /\ last = <<"allocate", <<"local">>>>

\* both keys were brought to the quota, marked, and the sentinel returned
C12_Witness ==
  /\ Len(Pool.keys) = 2
  /\ last = <<"allocate", <<"local">>>>
  /\ Allocations = 2 * Rounds
  /\ \A i \in 1..2 : ~Pool.keys[i].healthy

(***************************************************************************)
(* K-Inference: the tier selector (k-inference.js).                        *)
(***************************************************************************)
Bool(b) == <<"boolean", b>>

\* a K-vector as classifyQuery returns it, its description left out
KVector(suit, polarity, rank, shorthand, escalate, reason) ==
  Obj(<< <<"suit", Str(suit)>>, <<"polarity", Str(polarity)>>,
         <<"rank", Num(rank)>>, <<"shorthand", Str(shorthand)>>,
         <<"escalate", Obj(<< <<"escalate", Bool(escalate)>>,
                              <<"reason", Str(reason)>> >>)>> >>)

\* selectHandler that looks at the rank before the escalation
selectHandlerRankFirst(kVector) ==
  LET suit == OptGet(kVector, "suit")
      polarity == OptGet(kVector, "polarity")
      rank == OptGet(kVector, "rank")[2]
      escalate == OptGet(kVector, "escalate")
  IN IF rank <= 6
     THEN [tier |-> "template", reason |-> Str("low_complexity"),
           template |->
             <<suit[2], IF polarity = Str("+") THEN "light"
                        ELSE IF polarity = Str("-") THEN "dark"
                        ELSE "neutral">>]
     ELSE IF Truthy(OptGet(escalate, "escalate"))
     THEN [tier |-> "opus", reason |-> OptGet(escalate, "reason"),
           template |-> Null]
     ELSE IF rank <= 10
     THEN [tier |-> "local", reason |-> Str("moderate_complexity"),
           template |-> Null]
     ELSE [tier |-> "opus", reason |-> Str("high_complexity"),
           template |-> Null]

\* selectHandler: [tier, reason, template]; the template key
\* `${suit}_${bucket}` is kept as <<suit, bucket>>
selectHandler(kVector) ==
  LET suit == OptGet(kVector, "suit")
      polarity == OptGet(kVector, "polarity")
      rank == OptGet(kVector, "rank")[2]
      escalate == OptGet(kVector, "escalate")
  IN IF Truthy(OptGet(escalate, "escalate"))
     THEN [tier |-> "opus", reason |-> OptGet(escalate, "reason"),
           template |-> Null]
     ELSE IF rank <= 6
     THEN [tier |-> "template", reason |-> Str("low_complexity"),
           template |->
             <<suit[2], IF polarity = Str("+") THEN "light"
                        ELSE IF polarity = Str("-") THEN "dark"
                        ELSE "neutral">>]
     ELSE IF rank <= 10
     THEN [tier |-> "local", reason |-> Str("moderate_complexity"),
           template |-> Null]
     ELSE [tier |-> "opus", reason |-> Str("high_complexity"),
           template |-> Null]

(***************************************************************************)
(* K-Execute: running the routed query (k-execute.js).                     *)
(***************************************************************************)
FallbackKeys ==
  {"hearts", "spades", "diamonds", "clubs"} \X {"light", "dark", "neutral"}

FALLBACK_TEMPLATES(key) ==
  CASE key = <<"hearts", "light">> ->
         <<Text(<<"I", " ", "h", "e", "a", "r", " ", "y", "o", "u", ".", " ", 
              "W", "h", "a", "t", " ", "w", "o", "u", "l", "d", " ", "f", 
              "e", "e", "l", " ", "s", "u", "p", "p", "o", "r", "t", "i", 
              "v", "e", " ", "r", "i", "g", "h", "t", " ", "n", "o", "w", 
              "?">>)>>
    [] key = <<"hearts", "dark">> ->
         <<Text(<<"T", "h", "a", "t", " ", "s", "o", "u", "n", "d", "s", " ", 
              "d", "i", "f", "f", "i", "c", "u", "l", "t", ".", " ", "I", 
              "'", "m", " ", "h", "e", "r", "e", " ", "t", "o", " ", "l", 
              "i", "s", "t", "e", "n", ".">>)>>
    [] key = <<"hearts", "neutral">> ->
         <<Text(<<"I", "'", "m", " ", "l", "i", "s", "t", "e", "n", "i", "n", 
              "g", ".", " ", "W", "h", "a", "t", "'", "s", " ", "o", "n", 
              " ", "y", "o", "u", "r", " ", "m", "i", "n", "d", "?">>)>>
    [] key = <<"spades", "light">> ->
         <<Text(<<"L", "e", "t", " ", "m", "e", " ", "b", "r", "e", "a", "k", 
              " ", "t", "h", "a", "t", " ", "d", "o", "w", "n", " ", "s", 
              "y", "s", "t", "e", "m", "a", "t", "i", "c", "a", "l", "l", 
              "y", ".">>)>>
    [] key = <<"spades", "dark">> ->
         <<Text(<<"L", "e", "t", "'", "s", " ", "d", "e", "b", "u", "g", " ", 
              "t", "h", "i", "s", ".", " ", "W", "h", "a", "t", "'", "s", 
              " ", "t", "h", "e", " ", "e", "x", "a", "c", "t", " ", "i", 
              "s", "s", "u", "e", "?">>)>>
    [] key = <<"spades", "neutral">> ->
         <<Text(<<"L", "e", "t", " ", "m", "e", " ", "t", "h", "i", "n", "k", 
              " ", "t", "h", "r", "o", "u", "g", "h", " ", "t", "h", "i", 
              "s", ".">>)>>
    [] key = <<"diamonds", "light">> ->
         <<Text(<<"H", "e", "r", "e", "'", "s", " ", "t", "h", "e", " ", "i", 
              "n", "f", "o", "r", "m", "a", "t", "i", "o", "n", " ", "y", 
              "o", "u", " ", "n", "e", "e", "d", ".">>)>>
    [] key = <<"diamonds", "dark">> ->
         <<Text(<<"L", "e", "t", " ", "m", "e", " ", "h", "e", "l", "p", " ", 
              "y", "o", "u", " ", "f", "i", "n", "d", " ", "w", "h", "a", 
              "t", "'", "s", " ", "m", "i", "s", "s", "i", "n", "g", ".">>)>>
    [] key = <<"diamonds", "neutral">> ->
         <<Text(<<"T", "h", "e", " ", "d", "a", "t", "a", " ", "b", "r", "e", 
              "a", "k", "s", " ", "d", "o", "w", "n", " ", "a", "s", " ", 
              "f", "o", "l", "l", "o", "w", "s", ".", ".", ".">>)>>
    [] key = <<"clubs", "light">> ->
         <<Text(<<"L", "e", "t", "'", "s", " ", "b", "u", "i", "l", "d", " ", 
              "t", "h", "a", "t", ".", " ", "F", "i", "r", "s", "t", " ", 
              "s", "t", "e", "p", ".", ".", ".">>)>>
    [] key = <<"clubs", "dark">> ->
         <<Text(<<"L", "e", "t", "'", "s", " ", "f", "i", "x", " ", "t", "h", 
              "i", "s", ".", " ", "T", "h", "e", " ", "a", "c", "t", "i", 
              "o", "n", " ", "n", "e", "e", "d", "e", "d", " ", "i", "s", 
              ".", ".", ".">>)>>
    [] key = <<"clubs", "neutral">> ->
         <<Text(<<"H", "e", "r", "e", "'", "s", " ", "w", "h", "a", "t", " ", 
              "t", "o", " ", "d", "o", " ", "n", "e", "x", "t", ".", ".", 
              ".">>)>>

\* what the collaborators of one execute answer:
\*   corpus     whether templateLookup finds a template
\*   localOk    whether the Ollama request succeeds
\*   apiOk      whether the provider request succeeds and parses
\*   tokens     the token count the answer reports (0: none reported)
Env(corpus, localOk, apiOk, tokens) ==
  [corpus |-> corpus, localOk |-> localOk, apiOk |-> apiOk, tokens |-> tokens]

\* everything answers; the corpus misses and the provider reports no count;
\* the provider fails; Ollama fails; both fail
Environments ==
  {Env(TRUE, TRUE, TRUE, 100), Env(FALSE, TRUE, TRUE, 0),
   Env(FALSE, TRUE, FALSE, 100), Env(FALSE, FALSE, TRUE, 100),
   Env(FALSE, FALSE, FALSE, 0)}

\* the result object of execute
Result(response, tier, tokens, cost, kVector) ==
  [response |-> response, tier |-> tier, tokens |-> tokens, cost |-> cost,
   kVector |-> kVector]

\* executeLocal: <<"ok", result>> or <<"throw", error>>.  Its catch block
\* reads TEMPLATES, which k-execute.js neither defines nor imports.
executeLocal(kVector, env) ==
  IF env.localOk
  THEN <<"ok", Result(Text(<<"h", "m">>), "local", env.tokens, 0, kVector)>>
  ELSE <<"throw", "ReferenceError">>

\* the tokens executeAPI counts for a provider's answer
apiTokens(provider, env) ==
  IF provider = "anthropic" THEN env.tokens
  ELSE IF env.tokens # 0 THEN env.tokens ELSE 100

\* the provider request answered, and no usage recorded for it
withKeyUnrecorded(file, key, dir, t, kVector, env) ==
  LET tokens == apiTokens(key.provider, env)
      failed == markUnhealthy(file, dir, key.id)
  IN IF key.provider \in {"google", "anthropic", "openrouter"} /\ env.apiOk
     THEN <<file,
            <<"ok", Result(Text(<<"o", "h">>), "api", tokens,
                           IF key.provider = "anthropic" THEN tokens ELSE 0,
                           kVector)>>>>
     ELSE <<failed[1], executeLocal(kVector, env)>>

\* executeAPI with the answer of getNextKey at hand: <<pool file, outcome>>
withKey(file, key, dir, t, kVector, env) ==
  LET tokens == apiTokens(key.provider, env)
      recorded == recordUsage(file, dir, t, key.id, tokens)
      failed == markUnhealthy(file, dir, key.id)
  IN IF key.provider \in {"google", "anthropic", "openrouter"} /\ env.apiOk
     THEN <<recorded[1],
            <<"ok", Result(Text(<<"o", "h">>), "api", tokens,
                           IF key.provider = "anthropic" THEN tokens ELSE 0,
                           kVector)>>>>
     ELSE <<failed[1], executeLocal(kVector, env)>>

\* executeAPI: <<pool file, outcome>>
executeAPI(file, dir, t, kVector, options, env) ==
  The({IF next[2][1] = "throw" THEN <<next[1], next[2]>>
       ELSE IF next[2][1] = "local"
       THEN <<next[1], executeLocal(kVector, env)>>
       ELSE withKey(next[1], next[2][2], dir, t, kVector, env) :
         next \in {getNextKey(file, dir, t, options.provider)}})

\* execute that reads forceLocal after the template tier
executeTemplateFirst(file, dir, t, routed, options, env) ==
  LET tier == routed.handler.tier
      templateKey == routed.handler.template
  IN IF tier = "template" /\ env.corpus
     THEN <<file, <<"ok", Result(Text(<<"O", "k">>), "template", 0, 0,
                                 routed.kVector)>>>>
     ELSE IF tier = "template" /\ templateKey # Null
               /\ templateKey \in FallbackKeys
     THEN <<file, <<"ok", Result(FALLBACK_TEMPLATES(templateKey)[1],
                                 "template", 0, 0, routed.kVector)>>>>
     ELSE IF options.forceLocal \/ tier = "local"
     THEN <<file, executeLocal(routed.kVector, env)>>
     ELSE executeAPI(file, dir, t, routed.kVector, options, env)

\* execute that takes a miss of the template tier to the local path
executeMissToLocal(file, dir, t, routed, options, env) ==
  LET tier == routed.handler.tier
      templateKey == routed.handler.template
  IN IF options.forceLocal
     THEN <<file, executeLocal(routed.kVector, env)>>
     ELSE IF tier = "template" /\ env.corpus
     THEN <<file, <<"ok", Result(Text(<<"O", "k">>), "template", 0, 0,
                                 routed.kVector)>>>>
     ELSE IF tier = "template" /\ templateKey # Null
               /\ templateKey \in FallbackKeys
     THEN <<file, <<"ok", Result(FALLBACK_TEMPLATES(templateKey)[1],
                                 "template", 0, 0, routed.kVector)>>>>
     ELSE IF tier \in {"local", "template"}
     THEN <<file, executeLocal(routed.kVector, env)>>
     ELSE executeAPI(file, dir, t, routed.kVector, options, env)

\* execute: <<pool file, outcome>>
execute(file, dir, t, routed, options, env) ==
  LET tier == routed.handler.tier
      templateKey == routed.handler.template
  IN IF options.forceLocal
     THEN <<file, executeLocal(routed.kVector, env)>>
     ELSE IF tier = "template" /\ env.corpus
     THEN <<file, <<"ok", Result(Text(<<"O", "k">>), "template", 0, 0,
                                 routed.kVector)>>>>
     ELSE IF tier = "template" /\ templateKey # Null
               /\ templateKey \in FallbackKeys
     THEN <<file, <<"ok", Result(FALLBACK_TEMPLATES(templateKey)[1],
                                 "template", 0, 0, routed.kVector)>>>>
     ELSE IF tier = "local"
     THEN <<file, executeLocal(routed.kVector, env)>>
     ELSE executeAPI(file, dir, t, routed.kVector, options, env)

\* routeQuery
routeQuery(query, kVector) ==
  [query |-> query, kVector |-> kVector, handler |-> selectHandler(kVector)]

(***************************************************************************)
(* The entry points that execute a query: infer (k-execute.js), the ask    *)
(* command of the CLI and POST /ask and POST /batch of the server.         *)
(***************************************************************************)
NumQueries == 3

\* the queries asked
\*   1  "sad"                 2  "fix it for me now"       3  "hi"
SampleQuery(q) ==
  CASE q = 1 -> Text(<<"s", "a", "d">>)
    [] q = 2 -> Text(<<"f", "i", "x", " ", "i", "t", " ", "f", "o", "r", " ",
                       "m", "e", " ", "n", "o", "w">>)
    [] OTHER -> Text(<<"h", "i">>)

\* the K-vector classifyQuery gives each of them
\*   1  hearts (/sad/), no tone, rank 7 - 1 for fewer than 5 words
\*   2  spades (/fix/ and the keyword fix), no tone, rank 7
\*   3  no pattern matches: unknown, which escalates
classifySample(q) ==
  CASE q = 1 -> KVector("hearts", "~", 6, "~6H", FALSE, "routable")
    [] q = 2 -> KVector("spades", "~", 7, "~7S", FALSE, "routable")
    [] OTHER -> KVector("unknown", "~", 6, "~6U", TRUE, "uncertain_domain")

Routed(q) == routeQuery(SampleQuery(q), classifySample(q))

Options(forceLocal, provider, noLog) ==
  [forceLocal |-> forceLocal, provider |-> provider, noLog |-> noLog]

\* the usage counters stay below the bound
UsageWithin(file, max) ==
  \A id \in DOMAIN loadPool(file).usage : usageTotal(loadPool(file), id) <= max

\* the chain after the exchange is logged with the metadata the caller gives
logResult(file, t, query, result, withCost) ==
  logExchange(file, t, query, result.response, result.kVector,
              << <<"tier", Str(result.tier)>>, <<"tokens", Num(result.tokens)>> >>
              \o (IF withCost THEN << <<"cost", Num(result.cost)>> >> ELSE <<>>)).file

\* infer(query, options)
Infer ==
  /\ \E q \in 1..NumQueries, forceLocal \in BOOLEAN, noLog \in BOOLEAN,
        env \in Environments :
       \E r \in {execute(poolFile, configDir, now, Routed(q),
                         Options(forceLocal, Undefined, noLog), env)} :
       LET logs == r[2][1] = "ok" /\ ~noLog
       IN /\ UsageWithin(r[1], MaxPipeUsage)
          /\ logs => Len(chainFile.blocks) < MaxPipeBlocks
          /\ poolFile' = r[1]
          /\ chainFile' = IF logs
                          THEN logResult(chainFile, now, SampleQuery(q), r[2][2], TRUE)
                          ELSE chainFile
          /\ configDir' = IF logs THEN ensureChainDir(configDir) ELSE configDir
          /\ last' = <<"infer", r[2][1], 1, noLog>>
  /\ UNCHANGED <<calls, now, tampered>>

\* k-context ask <query> [--local]
CliAsk ==
  /\ \E q \in 1..NumQueries, forceLocal \in BOOLEAN, env \in Environments :
       \E r \in {execute(poolFile, configDir, now, Routed(q),
                         Options(forceLocal, Undefined, FALSE), env)} :
       LET logs == r[2][1] = "ok"
       IN /\ UsageWithin(r[1], MaxPipeUsage)
          /\ logs => Len(chainFile.blocks) < MaxPipeBlocks
          /\ poolFile' = r[1]
          /\ chainFile' = IF logs
                          THEN logResult(chainFile, now, SampleQuery(q), r[2][2], FALSE)
                          ELSE chainFile
          /\ configDir' = IF logs THEN ensureChainDir(configDir) ELSE configDir
          /\ last' = <<"ask", r[2][1], 1>>
  /\ UNCHANGED <<calls, now, tampered>>

\* POST /ask with a body that parses; query 0 is a body without the field
HttpAsk ==
  /\ \E q \in 0..NumQueries, forceLocal \in BOOLEAN,
        provider \in ProviderFilters, env \in Environments :
       IF q = 0
       THEN /\ last' = <<"POST /ask", 400, 0>>
            /\ UNCHANGED poolFile
       ELSE \E r \in {execute(poolFile, configDir, now, Routed(q),
                              Options(forceLocal, provider, FALSE), env)} :
              /\ UsageWithin(r[1], MaxPipeUsage)
              /\ poolFile' = r[1]
              /\ last' = <<"POST /ask", IF r[2][1] = "ok" THEN 200 ELSE 500, 1>>
  /\ UNCHANGED <<calls, now, chainFile, configDir, tampered>>

\* the pool file after the queries are executed one after the other, and
\* whether every one of them returned
RECURSIVE executeAll(_, _, _, _, _, _)
executeAll(file, dir, t, queries, options, env) ==
  IF queries = <<>> THEN <<file, TRUE>>
  ELSE The({The({<<rest[1], r[2][1] = "ok" /\ rest[2]>> :
                   rest \in {executeAll(r[1], dir, t, Tail(queries),
                                        options, env)}}) :
              r \in {execute(file, dir, t, Routed(Head(queries)),
                             options, env)}})

\* POST /batch with a body that parses; hasQueries is whether it holds an
\* array of queries.  The collaborators answer the queries of one request
\* alike.
HttpBatch ==
  /\ \E hasQueries \in BOOLEAN, n \in 0..MaxBatch, forceLocal \in BOOLEAN :
       \E queries \in [1..n -> 1..NumQueries], env \in Environments :
         IF ~hasQueries
         THEN /\ n = 0
              /\ last' = <<"POST /batch", 400, 0>>
              /\ UNCHANGED poolFile
         ELSE \E r \in {executeAll(poolFile, configDir, now, queries,
                                   Options(forceLocal, Undefined, FALSE), env)} :
                /\ UsageWithin(r[1], MaxPipeUsage)
                /\ poolFile' = r[1]
                /\ last' = <<"POST /batch", IF r[2] THEN 200 ELSE 500, n>>
  /\ UNCHANGED <<calls, now, chainFile, configDir, tampered>>

\* k-context pool --add <provider> <key>
AddPipeKey ==
  /\ Len(Pool.keys) < MaxPipeKeys
  /\ \E provider \in AddedProviders :
       LET r == addKey(poolFile, configDir, now, provider, Str("secret"), Null)
       IN /\ poolFile' = r[1]
          /\ last' = <<"addKey", r[2]>>
  /\ UNCHANGED <<calls, now, chainFile, configDir, tampered>>

NextPipe ==
  \/ MakeConfigDir
  \/ AddPipeKey
  \/ Infer
  \/ CliAsk
  \/ HttpAsk
  \/ HttpBatch

SpecPipe == Init /\ [][NextPipe]_vars

\* an entry point answered its caller: infer resolved, the ask command
\* printed the response, the server sent 200
Completed(l) ==
  \/ l[1] \in {"infer", "ask"} /\ l[2] = "ok"
  \/ l[1] \in {"POST /ask", "POST /batch"} /\ l[2] = 200

\* C5: every exchange that completes through an entry point of the pipeline
\* (infer, the ask command, POST /ask, POST /batch) appends exactly one block
\* per query to the chain, infer called with noLog set aside.
C5_EveryExchangeLogged ==
  [][(Completed(last') /\ ~(last'[1] = "infer" /\ last'[4])) =>
       Len(chainFile'.blocks) = Len(chainFile.blocks) + last'[3]]_vars

(***************************************************************************)
(* Calls of execute on a pool of keys.                                     *)
(***************************************************************************)
\* the providers keys are held for; mistral is none of PROVIDERS
ExecProviders == {"google", "anthropic", "mistral"}

\* a routed query built by the caller: a known rank, an unknown suit, no
\* escalation
HandRouted ==
  routeQuery(Text(<<"h", "i">>),
             KVector("unknown", "~", 6, "~6U", FALSE, "routable"))

ExecRouted == {Routed(q) : q \in 1..NumQueries} \cup {HandRouted}

\* k-context pool --add <provider> <key>
AddExecKey ==
  /\ Len(Pool.keys) < MaxExecKeys
  /\ \E provider \in ExecProviders :
       LET r == addKey(poolFile, configDir, now, provider, Str("secret"), Null)
       IN /\ poolFile' = r[1]
          /\ last' = <<"addKey", r[2]>>
  /\ UNCHANGED <<calls, now, chainFile, configDir, tampered>>

\* execute(routedQuery, options)
Execute ==
  /\ \E routed \in ExecRouted, forceLocal \in BOOLEAN,
        provider \in ProviderFilters, env \in Environments :
       \E r \in {execute(poolFile, configDir, now, routed,
                         Options(forceLocal, provider, FALSE), env)} :
         /\ UsageWithin(r[1], MaxPipeUsage)
         /\ poolFile' = r[1]
         /\ last' = <<"execute",
                      [routed |-> routed, forceLocal |-> forceLocal,
                       provider |-> provider, env |-> env],
                      r[2]>>
  /\ UNCHANGED <<calls, now, chainFile, configDir, tampered>>

NextExec ==
  \/ MakeConfigDir
  \/ AddExecKey
  \/ Execute

SpecExec == Init /\ [][NextExec]_vars

(***************************************************************************)
(* Properties of execute.                                                  *)
(***************************************************************************)
KnownSuits == {"hearts", "spades", "diamonds", "clubs"}

\* the suit of the K-vector of a call of execute
SuitOf(call) == OptGet(call.routed.kVector, "suit")[2]

\* the call takes the template tier and finds an answer there
TemplateAnswers(call) ==
  /\ ~call.forceLocal
  /\ call.routed.handler.tier = "template"
  /\ call.env.corpus \/ call.routed.handler.template \in FallbackKeys

\* the call runs the local path at once
LocalAtOnce(call) ==
  \/ call.forceLocal
  \/ ~TemplateAnswers(call) /\ call.routed.handler.tier = "local"

\* the call goes to the API tier
ReachesAPI(call) == ~TemplateAnswers(call) /\ ~LocalAtOnce(call)

\* C13: when the local call fails for a K-vector of a known suit, execute
\* returns the builtin template of `${suit}_neutral` with tier template and no
\* tokens or cost.
C13_LocalFailureFallsBack ==
  (/\ last[1] = "execute"
   /\ LocalAtOnce(last[2])
   /\ ~last[2].env.localOk
   /\ SuitOf(last[2]) \in KnownSuits) =>
    last[3] = <<"ok", Result(FALLBACK_TEMPLATES(<<SuitOf(last[2]), "neutral">>)[1],
                             "template", 0, 0, last[2].routed.kVector)>>

\* C14: execute raises only when the local call failed and the builtin table
\* has no `${suit}_neutral` entry.
C14_RaisesOnlyOnExhaustion ==
  (last[1] = "execute" /\ last[3][1] = "throw") =>
    /\ ~last[2].env.localOk
    /\ SuitOf(last[2]) \notin KnownSuits

\* the answer of getNextKey to a call of execute made in this state
Drawn(call) == getNextKey(poolFile, configDir, now, call.provider)

\* the place in the pool of the key getNextKey returned
DrawnIndex(call) ==
  LET keys == loadPool(Drawn(call)[1]).keys
      same == {i \in DOMAIN keys : keys[i] = Drawn(call)[2][2]}
  IN CHOOSE i \in same : \A j \in same : i <= j

\* the request to the provider of the drawn key fails or is never made
RequestFails(call) ==
  \/ ~call.env.apiOk
  \/ Drawn(call)[2][2].provider \notin {"google", "anthropic", "openrouter"}

\* C15: when the request to the provider fails, the pool is left as
\* getNextKey left it but for the drawn key, which is marked unhealthy, and
\* execute answers as the local path does.
C15_FailureMarksDrawnKey ==
  [][(/\ last'[1] = "execute"
      /\ ReachesAPI(last'[2])
      /\ Drawn(last'[2])[2][1] = "key"
      /\ RequestFails(last'[2])) =>
       LET call == last'[2]
           drawn == loadPool(Drawn(call)[1])
       IN /\ loadPool(poolFile') =
               [drawn EXCEPT !.keys[DrawnIndex(call)].healthy = FALSE]
          /\ last'[3] = executeLocal(call.routed.kVector, call.env)]_vars

\* ids are unique in the pool
UniqueIds(pool) ==
  \A i \in DOMAIN pool.keys : \A j \in DOMAIN pool.keys :
    i # j => pool.keys[i].id # pool.keys[j].id

\* C15 for pools without two keys of one id
C15_FailureMarksDrawnKeyUniqueIds ==
  [][(/\ last'[1] = "execute"
      /\ UniqueIds(Pool)
      /\ ReachesAPI(last'[2])
      /\ Drawn(last'[2])[2][1] = "key"
      /\ RequestFails(last'[2])) =>
       LET call == last'[2]
           drawn == loadPool(Drawn(call)[1])
       IN /\ loadPool(poolFile') =
               [drawn EXCEPT !.keys[DrawnIndex(call)].healthy = FALSE]
          /\ last'[3] = executeLocal(call.routed.kVector, call.env)]_vars

\* C16: when the provider answers, the usage of the drawn key, today and in
\* total, grows once by the tokens of the result and the pool is otherwise as
\* getNextKey left it, the drawn key healthy; when getNextKey returns the
\* local sentinel no usage is recorded and execute answers as the local path
\* does.
C16_SuccessRecordsOnce ==
  [][(last'[1] = "execute" /\ ReachesAPI(last'[2])) =>
       LET call == last'[2]
           drawn == loadPool(Drawn(call)[1])
           key == Drawn(call)[2][2]
           after == loadPool(poolFile')
       IN /\ (Drawn(call)[2][1] = "key" /\ ~RequestFails(call)) =>
               /\ last'[3][1] = "ok"
               /\ last'[3][2].tier = "api"
               /\ after.keys = drawn.keys
               /\ drawn.keys[DrawnIndex(call)].healthy
               /\ after.usage =
                    setUsage(drawn.usage, key.id,
                             [today |-> usageToday(drawn, key.id)
                                          + last'[3][2].tokens,
                              total |-> usageTotal(drawn, key.id)
                                          + last'[3][2].tokens])
               /\ after.lastRotation = drawn.lastRotation
          /\ Drawn(call)[2][1] = "local" =>
               /\ after = drawn
               /\ \A id \in DOMAIN after.usage :
                    usageTotal(after, id) = usageTotal(Pool, id)
               /\ last'[3] = executeLocal(call.routed.kVector, call.env)]_vars

\* a second answer of the provider is recorded against the one key
C16_Witness ==
  /\ last[1] = "execute"
  /\ last[3][1] = "ok"
  /\ last[3][2].tier = "api"
  /\ last[3][2].tokens = 100
  /\ \E i \in DOMAIN Pool.keys :
       Pool.keys[i].healthy /\ usageTotal(Pool, Pool.keys[i].id) = 200

\* C17: with forceLocal, execute answers as the local path does, whatever the
\* tier, never with tier template, and leaves the pool as it was.
C17_ForceLocalBypasses ==
  [][(last'[1] = "execute" /\ last'[2].forceLocal) =>
       /\ poolFile' = poolFile
       /\ last'[3] = executeLocal(last'[2].routed.kVector, last'[2].env)
       /\ last'[3][1] = "ok" => last'[3][2].tier = "local"]_vars

\* forceLocal on a query of the template tier the corpus would answer, with a
\* healthy key in the pool
C17_Witness ==
  /\ last[1] = "execute"
  /\ last[2].forceLocal
  /\ last[2].routed.handler.tier = "template"
  /\ last[2].env.corpus
  /\ last[3][1] = "ok"
  /\ last[3][2].tier = "local"
  /\ \E i \in DOMAIN Pool.keys : Pool.keys[i].healthy

\* C18: in the template tier, execute answers from the corpus when it
\* matches, else from the builtin table when it holds the template key, with
\* no tokens, no cost and the pool untouched; when neither matches, it does
\* what the API tier does.
C18_TemplateTier ==
  [][(/\ last'[1] = "execute"
      /\ ~last'[2].forceLocal
      /\ last'[2].routed.handler.tier = "template") =>
       LET call == last'[2]
           key == call.routed.handler.template
       IN /\ call.env.corpus =>
               /\ poolFile' = poolFile
               /\ last'[3] = <<"ok", Result(Text(<<"O", "k">>), "template",
                                            0, 0, call.routed.kVector)>>
          /\ (~call.env.corpus /\ key \in FallbackKeys) =>
               /\ poolFile' = poolFile
               /\ last'[3] = <<"ok", Result(FALLBACK_TEMPLATES(key)[1],
                                            "template", 0, 0,
                                            call.routed.kVector)>>
          /\ (~call.env.corpus /\ key \notin FallbackKeys) =>
               <<poolFile', last'[3]>> =
                 executeAPI(poolFile, configDir, now, call.routed.kVector,
                            Options(FALSE, call.provider, FALSE), call.env)]_vars

\* a template-tier query neither source answers is answered by a provider
C18_Witness ==
  /\ last[1] = "execute"
  /\ ~last[2].forceLocal
  /\ last[2].routed.handler.tier = "template"
  /\ last[2].routed.handler.template \notin FallbackKeys
  /\ last[3][1] = "ok"
  /\ last[3][2].tier = "api"

(***************************************************************************)
(* K-Inference: the classifier of queries (k-inference.js).  Every pattern *)
(* of the source is a literal with flag i, so RegExp#test is a search of   *)
(* the pattern in the lower-cased text.                                    *)
(***************************************************************************)
Suits == <<"hearts", "spades", "diamonds", "clubs">>

QUERY_PATTERNS(suit) ==
  CASE suit = "hearts" ->
         [patterns |->
            <<<<"f", "e", "e", "l">>,
              <<"e", "m", "o", "t", "i", "o", "n">>,
              <<"r", "e", "l", "a", "t", "i", "o", "n", "s", "h", "i", "p">>,
              <<"f", "r", "i", "e", "n", "d">>,
              <<"l", "o", "v", "e">>,
              <<"s", "a", "d">>,
              <<"h", "a", "p", "p", "y">>,
              <<"a", "n", "g", "r", "y">>,
              <<"a", "f", "r", "a", "i", "d">>,
              <<"l", "o", "n", "e", "l", "y">>,
              <<"c", "o", "n", "n", "e", "c", "t">>,
              <<"u", "n", "d", "e", "r", "s", "t", "a", "n", "d">>,
              <<"h", "e", "l", "p", " ", "m", "e">>,
              <<"s", "u", "p", "p", "o", "r", "t">>>>,
          keywords |->
            <<<<"f", "e", "e", "l">>,
              <<"e", "m", "o", "t", "i", "o", "n">>,
              <<"r", "e", "l", "a", "t", "i", "o", "n", "s", "h", "i", "p">>,
              <<"f", "r", "i", "e", "n", "d">>,
              <<"c", "o", "n", "n", "e", "c", "t">>,
              <<"u", "n", "d", "e", "r", "s", "t", "a", "n", "d">>,
              <<"s", "u", "p", "p", "o", "r", "t">>,
              <<"c", "a", "r", "e">>>>]
    [] suit = "spades" ->
         [patterns |->
            <<<<"a", "n", "a", "l", "y", "z", "e">>,
              <<"e", "x", "p", "l", "a", "i", "n">>,
              <<"w", "h", "y">>,
              <<"h", "o", "w", " ", "d", "o", "e", "s">>,
              <<"l", "o", "g", "i", "c">>,
              <<"r", "e", "a", "s", "o", "n">>,
              <<"t", "h", "i", "n", "k">>,
              <<"u", "n", "d", "e", "r", "s", "t", "a", "n", "d">>,
              <<"c", "o", "m", "p", "a", "r", "e">>,
              <<"d", "i", "f", "f", "e", "r", "e", "n", "c", "e">>,
              <<"d", "e", "b", "u", "g">>,
              <<"e", "r", "r", "o", "r">>,
              <<"f", "i", "x">>,
              <<"s", "o", "l", "v", "e">>,
              <<"p", "r", "o", "b", "l", "e", "m">>,
              <<"b", "u", "g">>,
              <<"i", "s", "s", "u", "e">>,
              <<"b", "r", "o", "k", "e", "n">>,
              <<"w", "r", "o", "n", "g">>,
              <<"c", "o", "d", "e">>>>,
          keywords |->
            <<<<"a", "n", "a", "l", "y", "z", "e">>,
              <<"e", "x", "p", "l", "a", "i", "n">>,
              <<"l", "o", "g", "i", "c">>,
              <<"r", "e", "a", "s", "o", "n">>,
              <<"t", "h", "i", "n", "k">>,
              <<"c", "o", "m", "p", "a", "r", "e">>,
              <<"d", "e", "b", "u", "g">>,
              <<"s", "o", "l", "v", "e">>,
              <<"p", "r", "o", "b", "l", "e", "m">>,
              <<"b", "u", "g">>,
              <<"f", "i", "x">>,
              <<"e", "r", "r", "o", "r">>,
              <<"i", "s", "s", "u", "e">>,
              <<"c", "o", "d", "e">>>>]
    [] suit = "diamonds" ->
         [patterns |->
            <<<<"d", "a", "t", "a">>,
              <<"s", "t", "o", "r", "e">>,
              <<"s", "a", "v", "e">>,
              <<"d", "a", "t", "a", "b", "a", "s", "e">>,
              <<"s", "c", "h", "e", "m", "a">>,
              <<"t", "y", "p", "e">>,
              <<"s", "t", "r", "u", "c", "t", "u", "r", "e">>,
              <<"f", "o", "r", "m", "a", "t">>,
              <<"j", "s", "o", "n">>,
              <<"a", "p", "i">>,
              <<"w", "h", "a", "t", " ", "i", "s">>,
              <<"d", "e", "f", "i", "n", "e">>,
              <<"l", "i", "s", "t">>,
              <<"s", "h", "o", "w">>>>,
          keywords |->
            <<<<"d", "a", "t", "a">>,
              <<"s", "t", "o", "r", "e">>,
              <<"s", "a", "v", "e">>,
              <<"d", "a", "t", "a", "b", "a", "s", "e">>,
              <<"t", "y", "p", "e">>,
              <<"s", "t", "r", "u", "c", "t", "u", "r", "e">>,
              <<"f", "o", "r", "m", "a", "t">>,
              <<"d", "e", "f", "i", "n", "e">>,
              <<"l", "i", "s", "t">>>>]
    [] suit = "clubs" ->
         [patterns |->
            <<<<"c", "r", "e", "a", "t", "e">>,
              <<"b", "u", "i", "l", "d">>,
              <<"m", "a", "k", "e">>,
              <<"g", "e", "n", "e", "r", "a", "t", "e">>,
              <<"w", "r", "i", "t", "e">>,
              <<"r", "u", "n">>,
              <<"e", "x", "e", "c", "u", "t", "e">>,
              <<"d", "o">>,
              <<"a", "c", "t", "i", "o", "n">>,
              <<"s", "t", "a", "r", "t">>,
              <<"d", "e", "p", "l", "o", "y">>,
              <<"s", "e", "n", "d">>,
              <<"p", "o", "s", "t">>,
              <<"u", "p", "d", "a", "t", "e">>,
              <<"d", "e", "l", "e", "t", "e">>>>,
          keywords |->
            <<<<"c", "r", "e", "a", "t", "e">>,
              <<"b", "u", "i", "l", "d">>,
              <<"m", "a", "k", "e">>,
              <<"g", "e", "n", "e", "r", "a", "t", "e">>,
              <<"w", "r", "i", "t", "e">>,
              <<"r", "u", "n">>,
              <<"e", "x", "e", "c", "u", "t", "e">>,
              <<"a", "c", "t", "i", "o", "n">>,
              <<"d", "e", "p", "l", "o", "y">>>>]

POLARITY_PATTERNS ==
  [light |->
     <<<<"p", "l", "e", "a", "s", "e">>,
     <<"h", "e", "l", "p">>,
     <<"w", "o", "u", "l", "d">>,
     <<"c", "o", "u", "l", "d">>,
     <<"t", "h", "a", "n", "k", "s">>,
     <<"g", "o", "o", "d">>,
     <<"g", "r", "e", "a", "t">>,
     <<"l", "o", "v", "e">>>>,
   dark |->
     <<<<"h", "a", "t", "e">>,
     <<"a", "n", "g", "r", "y">>,
     <<"f", "r", "u", "s", "t", "r", "a", "t", "e", "d">>,
     <<"b", "r", "o", "k", "e", "n">>,
     <<"w", "r", "o", "n", "g">>,
     <<"f", "a", "i", "l">>,
     <<"e", "r", "r", "o", "r">>,
     <<"b", "u", "g">>>>]

RANK_INDICATORS ==
  [low |->
     <<<<"s", "i", "m", "p", "l", "e">>,
     <<"b", "a", "s", "i", "c">>,
     <<"q", "u", "i", "c", "k">>,
     <<"j", "u", "s", "t">>,
     <<"o", "n", "l", "y">>>>,
   high |->
     <<<<"c", "o", "m", "p", "l", "e", "x">>,
     <<"a", "d", "v", "a", "n", "c", "e", "d">>,
     <<"a", "r", "c", "h", "i", "t", "e", "c", "t", "u", "r", "e">>,
     <<"s", "y", "s", "t", "e", "m">>,
     <<"d", "e", "s", "i", "g", "n">>>>]

escalationTriggers ==
  <<<<"n", "o", "v", "e", "l">>,
  <<"n", "e", "w", " ", "a", "p", "p", "r", "o", "a", "c", "h">>,
  <<"n", "e", "v", "e", "r", " ", "b", "e", "e", "n", " ", "d", "o", "n", "e">>,
  <<"s", "y", "n", "t", "h", "e", "s", "i", "s">>,
  <<"c", "o", "m", "b", "i", "n", "e">>,
  <<"i", "n", "t", "e", "g", "r", "a", "t", "e">>,
  <<"w", "h", "a", "t", " ", "i", "f">>,
  <<"i", "m", "a", "g", "i", "n", "e">>,
  <<"h", "y", "p", "o", "t", "h", "e", "t", "i", "c", "a", "l", "l", "y">>>>

\* RegExp#test of a literal pattern with flag i, on the lower-cased text
test(pattern, lower) == includes(lower, pattern)

\* the number of patterns of a list that match
matches(patterns, lower) ==
  Cardinality({i \in DOMAIN patterns : test(patterns[i], lower)})

\* scores[suit] with a pattern counting as much as a keyword
suitScoreUnweighted(suit, lower) ==
  matches(QUERY_PATTERNS(suit).patterns, lower)
    + matches(QUERY_PATTERNS(suit).keywords, lower)

\* scores[suit] of classifyQuerySuit
suitScore(suit, lower) ==
  2 * matches(QUERY_PATTERNS(suit).patterns, lower)
    + matches(QUERY_PATTERNS(suit).keywords, lower)

\* classifyQuerySuit: the suit sorted first by score, unknown when the first
\* score is 0 or the first two are equal
classifyQuerySuit(lower) ==
  The({ IF \A i \in DOMAIN Suits : scores[i] = 0 THEN "unknown"
        ELSE LET top == {i \in DOMAIN Suits :
                          \A j \in DOMAIN Suits : scores[j] <= scores[i]}
             IN IF Cardinality(top) > 1 THEN "unknown"
                ELSE Suits[CHOOSE i \in top : TRUE] :
        scores \in {[i \in DOMAIN Suits |-> suitScore(Suits[i], lower)]} })

classifyQueryPolarity(lower) ==
  The({ IF score[1] = score[2] THEN "~"
        ELSE IF score[1] > score[2] THEN "+" ELSE "-" :
        score \in {<<matches(POLARITY_PATTERNS.light, lower),
                     matches(POLARITY_PATTERNS.dark, lower)>>} })

\* query.split(/\s+/).length: one more than the runs of white space
wordCount(chars) ==
  1 + Cardinality({i \in DOMAIN chars :
                     chars[i] = " " /\ (i = 1 \/ chars[i - 1] # " ")})

Max(a, b) == IF a >= b THEN a ELSE b
Min(a, b) == IF a <= b THEN a ELSE b

\* classifyQueryRank that returns the score as it is
classifyQueryRankUnclamped(lower) ==
  7 - 2 * matches(RANK_INDICATORS.low, lower)
    + 2 * matches(RANK_INDICATORS.high, lower)
    + (IF wordCount(lower) > 30 THEN 2
       ELSE IF wordCount(lower) < 5 THEN -1 ELSE 0)

classifyQueryRank(lower) ==
  The({ Max(1, Min(13, score)) :
        score \in {7 - 2 * matches(RANK_INDICATORS.low, lower)
                     + 2 * matches(RANK_INDICATORS.high, lower)
                     + (IF wordCount(lower) > 30 THEN 2
                        ELSE IF wordCount(lower) < 5 THEN -1 ELSE 0)} })

\* shouldEscalate without the rule for the rank
shouldEscalateBySuitAndTriggers(lower, suit, rank) ==
  IF suit = "unknown" THEN <<TRUE, "uncertain_domain">>
  ELSE IF \E i \in DOMAIN escalationTriggers :
            test(escalationTriggers[i], lower)
  THEN <<TRUE, "requires_synthesis">>
  ELSE <<FALSE, "routable">>

\* shouldEscalate with the triggers looked at before the rank
shouldEscalateTriggersFirst(lower, suit, rank) ==
  IF suit = "unknown" THEN <<TRUE, "uncertain_domain">>
  ELSE IF \E i \in DOMAIN escalationTriggers :
            test(escalationTriggers[i], lower)
  THEN <<TRUE, "requires_synthesis">>
  ELSE IF rank >= 11 THEN <<TRUE, "high_complexity">>
  ELSE <<FALSE, "routable">>

\* shouldEscalate: <<escalate, reason>>
shouldEscalate(lower, suit, rank) ==
  IF suit = "unknown" THEN <<TRUE, "uncertain_domain">>
  ELSE IF rank >= 11 THEN <<TRUE, "high_complexity">>
  ELSE IF \E i \in DOMAIN escalationTriggers :
            test(escalationTriggers[i], lower)
  THEN <<TRUE, "requires_synthesis">>
  ELSE <<FALSE, "routable">>

\* suit.charAt(0), left in lower case
initialLowerCase(suit) ==
  CASE suit = "hearts" -> "h" [] suit = "spades" -> "s"
    [] suit = "diamonds" -> "d" [] suit = "clubs" -> "c" [] OTHER -> "u"

\* suit.charAt(0).toUpperCase()
initial(suit) ==
  CASE suit = "hearts" -> "H" [] suit = "spades" -> "S"
    [] suit = "diamonds" -> "D" [] suit = "clubs" -> "C" [] OTHER -> "U"

\* classifyQuery, of a text: the tags of the lower-cased text
tagged(lower) ==
  The({ The({ KVector(tags[1], tags[2], tags[3],
                      tags[2] \o ToString(tags[3]) \o initial(tags[1]),
                      escalate[1], escalate[2]) :
              escalate \in {shouldEscalate(lower, tags[1], tags[3])} }) :
        tags \in {<<classifyQuerySuit(lower), classifyQueryPolarity(lower),
                    classifyQueryRank(lower)>>} })

classifyQuery(query) ==
  The({ tagged(lower) : lower \in {toLowerCase(query[2])} })

(***************************************************************************)
(* Classifying and routing queries made of a few fragments.  The           *)
(* classifier and the selector keep no state, so each behaviour makes one  *)
(* call.                                                                   *)
(***************************************************************************)
MaxWords == 2

Vocabulary ==
  <<<<"s", "a", "d">>,
  <<"w", "h", "y">>,
  <<"c", "a", "r", "e">>,
  <<"n", "o", "v", "e", "l", " ", "S", "y", "s", "t", "e", "m", " ", "t", "h",
    "a", "n", "k", "s">>,
  <<"c", "o", "m", "p", "l", "e", "x", " ", "f", "a", "i", "l">>,
  <<"a", "d", "v", "a", "n", "c", "e", "d", " ", "s", "y", "s", "t", "e", "m",
    " ", "d", "e", "s", "i", "g", "n">>,
  <<"J", "u", "s", "t", " ", "s", "i", "m", "p", "l", "e", " ", "b", "a", "s",
    "i", "c", " ", "q", "u", "i", "c", "k">>>>

Padding == {0, 30}

\* the fragments joined by single spaces
RECURSIVE Join(_)
Join(words) ==
  IF Len(words) = 0 THEN <<>>
  ELSE IF Len(words) = 1 THEN words[1]
  ELSE words[1] \o <<" ">> \o Join(Tail(words))

\* a query: up to MaxWords fragments, then some words that match nothing
Query(picks, pad) ==
  Text(Join([i \in 1..(Len(picks) + pad) |->
               IF i <= Len(picks) THEN Vocabulary[picks[i]] ELSE <<"x">>]))

Picks == UNION {[1..n -> DOMAIN Vocabulary] : n \in 1..MaxWords}

Polarities == {"+", "-", "~"}
Reasons == {"uncertain_domain", "high_complexity", "requires_synthesis"}

\* the tags a caller of selectHandler can pass
Tags ==
  {KVector(suit, polarity, rank, "", e[1], e[2]) :
     suit \in {"hearts", "spades", "diamonds", "clubs", "unknown"},
     polarity \in Polarities, rank \in 1..13,
     e \in ({TRUE} \X Reasons) \cup {<<FALSE, "routable">>}}

ClassifyQuery ==
  /\ last = <<"none">>
  /\ \E picks \in Picks, pad \in Padding :
       \E query \in {Query(picks, pad)} :
         \E kVector \in {classifyQuery(query)} :
           last' = <<"classifyQuery", query, kVector>>
  /\ UNCHANGED <<calls, now, chainFile, poolFile, configDir, tampered>>

SelectHandler ==
  /\ last = <<"none">>
  /\ \E kVector \in Tags :
       last' = <<"selectHandler", kVector, selectHandler(kVector)>>
  /\ UNCHANGED <<calls, now, chainFile, poolFile, configDir, tampered>>

RouteQuery ==
  /\ last = <<"none">>
  /\ \E picks \in Picks, pad \in Padding :
       \E query \in {Query(picks, pad)} :
         \E routed \in {routeQuery(query, classifyQuery(query))} :
           last' = <<"routeQuery", query, routed>>
  /\ UNCHANGED <<calls, now, chainFile, poolFile, configDir, tampered>>

\* the two queries of the scenarios
\*   1  "I feel so lonely and sad"
\*   2  "Can you give me a novel architecture for a distributed system?"
ScenarioQuery(n) ==
  IF n = 1
  THEN Text(<<"I", " ", "f", "e", "e", "l", " ", "s", "o", " ", "l", "o", "n", "e", "l",
            "y", " ", "a", "n", "d", " ", "s", "a", "d">>)
  ELSE Text(<<"C", "a", "n", " ", "y", "o", "u", " ", "g", "i", "v", "e", " ", "m", "e",
            " ", "a", " ", "n", "o", "v", "e", "l", " ", "a", "r", "c", "h", "i", "t",
            "e", "c", "t", "u", "r", "e", " ", "f", "o", "r", " ", "a", " ", "d", "i",
            "s", "t", "r", "i", "b", "u", "t", "e", "d", " ", "s", "y", "s", "t", "e",
            "m", "?">>)

ClassifyScenario ==
  /\ last = <<"none">>
  /\ \E n \in 1..2 :
       \E query \in {ScenarioQuery(n)} :
         \E routed \in {routeQuery(query, classifyQuery(query))} :
           last' = <<"scenario", n, routed>>
  /\ UNCHANGED <<calls, now, chainFile, poolFile, configDir, tampered>>

NextClassify ==
  ClassifyQuery \/ SelectHandler \/ RouteQuery \/ ClassifyScenario
SpecClassify == Init /\ [][NextClassify]_vars

(***************************************************************************)
(* Properties of the classifier and of the selector.                       *)
(***************************************************************************)
SuitIn(kVector) == OptGet(kVector, "suit")[2]
PolarityIn(kVector) == OptGet(kVector, "polarity")[2]
RankIn(kVector) == OptGet(kVector, "rank")[2]
FlagIn(kVector) == OptGet(OptGet(kVector, "escalate"), "escalate")[2]
ReasonIn(kVector) == OptGet(OptGet(kVector, "escalate"), "reason")[2]

\* a synthesis trigger occurs in the text
Triggered(query) ==
  \E i \in DOMAIN escalationTriggers :
    includes(toLowerCase(query[2]), escalationTriggers[i])

\* C19: in every tag classifyQuery returns, the escalate flag is set exactly
\* when the suit is unknown, the rank is 11 or more, or a synthesis trigger
\* occurs in the text, and the reason is uncertain_domain, else
\* high_complexity, else requires_synthesis, in that order, and routable
\* when the flag is not set.
C19_EscalateReason ==
  last[1] = "classifyQuery" =>
    LET kVector == last[3]
    IN /\ FlagIn(kVector) <=> \/ SuitIn(kVector) = "unknown"
                               \/ RankIn(kVector) >= 11
                               \/ Triggered(last[2])
       /\ ReasonIn(kVector) =
            IF SuitIn(kVector) = "unknown" THEN "uncertain_domain"
            ELSE IF RankIn(kVector) >= 11 THEN "high_complexity"
            ELSE IF Triggered(last[2]) THEN "requires_synthesis"
            ELSE "routable"

\* a text of a known suit with rank 11 or more and a trigger in it
C19_Witness ==
  /\ last[1] = "classifyQuery"
  /\ SuitIn(last[3]) # "unknown"
  /\ RankIn(last[3]) >= 11
  /\ Triggered(last[2])
  /\ ReasonIn(last[3]) = "high_complexity"

\* C20: selectHandler answers every tag: an escalated tag gets the tier of
\* the provider API (named opus in the code) with the reason of the
\* escalation and no template key; else a rank of 6 or less gets tier
\* template with the key of the suit and of light, dark or neutral for
\* polarity +, - or ~; else a rank of 10 or less gets tier local.  No routed
\* query whose tag is escalated has tier template.
C20_SelectTotal ==
  /\ last[1] = "selectHandler" =>
       LET kVector == last[2]
           handler == last[3]
       IN /\ handler.tier \in {"opus", "template", "local"}
          /\ FlagIn(kVector) =>
               /\ handler.tier = "opus"
               /\ handler.reason = Str(ReasonIn(kVector))
               /\ handler.template = Null
          /\ (~FlagIn(kVector) /\ RankIn(kVector) <= 6) =>
               /\ handler.tier = "template"
               /\ handler.template =
                    <<SuitIn(kVector),
                      CASE PolarityIn(kVector) = "+" -> "light"
                        [] PolarityIn(kVector) = "-" -> "dark"
                        [] PolarityIn(kVector) = "~" -> "neutral">>
          /\ (~FlagIn(kVector) /\ RankIn(kVector) > 6
                /\ RankIn(kVector) <= 10) =>
               handler.tier = "local"
  /\ last[1] = "routeQuery" =>
       (FlagIn(last[3].kVector) => last[3].handler.tier # "template")

\* an escalated tag of low rank is given the API tier
C20_Witness ==
  /\ last[1] = "selectHandler"
  /\ FlagIn(last[2])
  /\ RankIn(last[2]) <= 6
  /\ last[3].tier = "opus"
  /\ last[3].template = Null

\* the number of entries of a list that occur in the lower-cased text
Hits(list, lower) == Cardinality({i \in DOMAIN list : includes(lower, list[i])})

\* 2 for each pattern of the suit that matches, 1 for each keyword contained
Score(suit, lower) ==
  2 * Hits(QUERY_PATTERNS(suit).patterns, lower)
    + Hits(QUERY_PATTERNS(suit).keywords, lower)

FourSuits == {"hearts", "spades", "diamonds", "clubs"}

\* C21: the suit of the tag is the one suit of the four whose score, 2 for
\* each matching pattern and 1 for each keyword in the lower-cased text, is
\* above every other; it is unknown exactly when the highest score is 0 or
\* two suits share it.
C21_HighestScoringSuit ==
  last[1] = "classifyQuery" =>
    \A lower \in {toLowerCase(last[2][2])} :
      \A scores \in {[s \in FourSuits |-> Score(s, lower)]} :
        LET top == {s \in FourSuits : \A o \in FourSuits : scores[o] <= scores[s]}
        IN /\ SuitIn(last[3]) = "unknown" <=>
                \/ \A s \in FourSuits : scores[s] = 0
                \/ Cardinality(top) >= 2
           /\ SuitIn(last[3]) # "unknown" =>
                /\ SuitIn(last[3]) \in FourSuits
                /\ \A o \in FourSuits \ {SuitIn(last[3])} :
                     scores[o] < scores[SuitIn(last[3])]

\* one pattern of spades outweighs one keyword of hearts
C21_Witness ==
  /\ last[1] = "classifyQuery"
  /\ SuitIn(last[3]) = "spades"
  /\ Score("hearts", toLowerCase(last[2][2])) = 1
  /\ Score("spades", toLowerCase(last[2][2])) = 2

\* two suits with the highest score
C21_WitnessTie ==
  /\ last[1] = "classifyQuery"
  /\ SuitIn(last[3]) = "unknown"
  /\ Score("hearts", toLowerCase(last[2][2])) = 2
  /\ Score("spades", toLowerCase(last[2][2])) = 2

\* the score of classifyQueryRank before it is clamped
RawRank(query) ==
  LET lower == toLowerCase(query[2])
      words == wordCount(query[2])
  IN 7 - 2 * Hits(RANK_INDICATORS.low, lower)
       + 2 * Hits(RANK_INDICATORS.high, lower)
       + (IF words > 30 THEN 2 ELSE IF words < 5 THEN -1 ELSE 0)

\* C22: the rank of the tag is 7, less 2 for each low indicator matched, plus
\* 2 for each high indicator matched, plus 2 for more than 30 words or less 1
\* for fewer than 5, brought into 1..13; so it is always in 1..13.
C22_RankClamped ==
  last[1] = "classifyQuery" =>
    \A raw \in {RawRank(last[2])} :
      /\ RankIn(last[3]) \in 1..13
      /\ RankIn(last[3]) =
           IF raw < 1 THEN 1 ELSE IF raw > 13 THEN 13 ELSE raw

\* four high indicators in more than 30 words: 17 brought down to 13
C22_Witness ==
  /\ last[1] = "classifyQuery"
  /\ RawRank(last[2]) = 17
  /\ RankIn(last[3]) = 13

\* four low indicators in four words: -2 brought up to 1
C22_WitnessLow ==
  /\ last[1] = "classifyQuery"
  /\ RawRank(last[2]) = -2
  /\ RankIn(last[3]) = 1

\* C23: the shorthand of the tag is its polarity, then its rank in decimal,
\* then the initial of its suit in upper case, U for unknown.
C23_Shorthand ==
  last[1] = "classifyQuery" =>
    OptGet(last[3], "shorthand") =
      Str(PolarityIn(last[3]) \o ToString(RankIn(last[3]))
            \o (CASE SuitIn(last[3]) = "hearts" -> "H"
                   [] SuitIn(last[3]) = "spades" -> "S"
                   [] SuitIn(last[3]) = "diamonds" -> "D"
                   [] SuitIn(last[3]) = "clubs" -> "C"
                   [] SuitIn(last[3]) = "unknown" -> "U"))

\* a tag with a rank of two digits
C23_Witness ==
  /\ last[1] = "classifyQuery"
  /\ OptGet(last[3], "shorthand") = Str("-11S")
  /\ SuitIn(last[3]) = "spades"
  /\ PolarityIn(last[3]) = "-"
  /\ RankIn(last[3]) = 11

\* C24: "I feel so lonely and sad" is tagged hearts with polarity - and is not
\* escalated, and selectHandler gives it tier template or local.
C24_LonelyAndSad ==
  (last[1] = "scenario" /\ last[2] = 1) =>
    /\ SuitIn(last[3].kVector) = "hearts"
    /\ PolarityIn(last[3].kVector) = "-"
    /\ ~FlagIn(last[3].kVector)
    /\ last[3].handler.tier \in {"template", "local"}

\* what the code answers for the first scenario
C24_AsClassified ==
  (last[1] = "scenario" /\ last[2] = 1) =>
    /\ SuitIn(last[3].kVector) = "hearts"
    /\ PolarityIn(last[3].kVector) = "~"
    /\ RankIn(last[3].kVector) = 7
    /\ ~FlagIn(last[3].kVector)
    /\ last[3].handler.tier = "local"

\* C25: "Can you give me a novel architecture for a distributed system?" is
\* escalated with the reason high_complexity.
C25_NovelArchitecture ==
  (last[1] = "scenario" /\ last[2] = 2) =>
    /\ FlagIn(last[3].kVector)
    /\ ReasonIn(last[3].kVector) = "high_complexity"

\* what the code answers for the second scenario
C25_AsClassified ==
  (last[1] = "scenario" /\ last[2] = 2) =>
    /\ SuitIn(last[3].kVector) = "unknown"
    /\ RankIn(last[3].kVector) = 11
    /\ FlagIn(last[3].kVector)
    /\ ReasonIn(last[3].kVector) = "uncertain_domain"
    /\ last[3].handler.tier = "opus"

(***************************************************************************)
(* K-Server: the HTTP handler (k-server.js).  A request is its method, its *)
(* path and the text of its body; the text is kept as what JSON.parse      *)
(* makes of it.                                                            *)
(***************************************************************************)
MaxHttpKeys == 1

\* a body JSON.parse rejects, and no body at all
Malformed == <<"malformed">>
NoBody == <<"empty">>

Arr(items) == <<"array", items>>

\* parseBody: resolves with the parsed body, {} for no body, or rejects
parseBody(raw) ==
  IF raw = Malformed THEN <<"throw", "Invalid JSON">>
  ELSE IF raw = NoBody THEN <<"ok", Obj(<<>>)>>
  ELSE <<"ok", raw>>

\* body.k throws for null; any other value without the member gives undefined
CanRead(body) == body # Null

sendJSON(data) == [status |-> 200, body |-> data]
sendError(message, status) ==
  [status |-> status, body |-> [kind |-> "error", error |-> message]]

\* one query of a batch before its provider answers: the pool file after
\* the synchronous part, and the outcome or the key the request waits with
startQuery(file, dir, t, q, options, env) ==
  IF ReachesAPI([routed |-> Routed(q), forceLocal |-> options.forceLocal,
                 provider |-> options.provider, env |-> env])
  THEN The({IF next[2][1] = "key" THEN <<next[1], <<"pending", next[2][2]>>>>
            ELSE IF next[2][1] = "local"
            THEN <<next[1], executeLocal(Routed(q).kVector, env)>>
            ELSE <<next[1], next[2]>> :
              next \in {getNextKey(file, dir, t, options.provider)}})
  ELSE execute(file, dir, t, Routed(q), options, env)

\* the queries of a batch started in the order of the array:
\* <<pool file, the state of every query>>
RECURSIVE startAll(_, _, _, _, _, _)
startAll(file, dir, t, queries, options, env) ==
  IF queries = <<>> THEN <<file, <<>>>>
  ELSE The({The({<<rest[1], <<s[2]>> \o rest[2]>> :
                   rest \in {startAll(s[1], dir, t, Tail(queries),
                                      options, env)}}) :
              s \in {startQuery(file, dir, t, Head(queries), options, env)}})

\* the provider answers arrive in the given order:
\* <<pool file, the outcome of every query>>
RECURSIVE settleAll(_, _, _, _, _, _, _)
settleAll(file, dir, t, queries, states, env, order) ==
  IF order = <<>> THEN <<file, states>>
  ELSE IF states[Head(order)][1] # "pending"
  THEN settleAll(file, dir, t, queries, states, env, Tail(order))
  ELSE The({settleAll(r[1], dir, t, queries,
                      [states EXCEPT ![Head(order)] = r[2]], env,
                      Tail(order)) :
              r \in {withKey(file, states[Head(order)][2], dir, t,
                             Routed(queries[Head(order)]).kVector, env)}})

\* the entry of the results array for one query
batchEntry(q, result) ==
  [query |-> SampleQuery(q), response |-> result.response,
   kVector |-> result.kVector, tier |-> result.tier,
   tokens |-> result.tokens]

\* the array in the order in which the queries settled
gatherAsSettled(queries, outcomes, order) ==
  [k \in DOMAIN order |->
     batchEntry(queries[order[k]], outcomes[order[k]][2])]

\* Promise.all over body.queries.map: the array in the order of the queries
gather(queries, outcomes, order) ==
  [i \in DOMAIN queries |-> batchEntry(queries[i], outcomes[i][2])]

\* results.reduce((sum, r) => sum + r.tokens, 0)
RECURSIVE totalTokens(_)
totalTokens(results) ==
  IF results = <<>> THEN 0
  ELSE Head(results).tokens + totalTokens(Tail(results))

\* the orders in which n requests can settle
Orders(n) == {o \in [1..n -> 1..n] : \A i, j \in 1..n : i # j => o[i] # o[j]}

Thrown(outcomes) == {i \in DOMAIN outcomes : outcomes[i][1] = "throw"}

\* the number of a query text among the queries asked
QueryIndex(query) == CHOOSE q \in 1..NumQueries : SampleQuery(q) = query
QueryIndexes(queries) == [i \in DOMAIN queries |-> QueryIndex(queries[i])]

\* handleRequest: [file, response]
handleRequest(file, dir, t, method, path, raw, env, order) ==
  LET parsed == parseBody(raw)
      body == parsed[2]
      keep(response) == [file |-> file, response |-> response]
  IN IF method = "OPTIONS" THEN keep([status |-> 204, body |-> [kind |-> "none"]])
     ELSE IF method = "GET" /\ path \in {"/health", "/stats", "/keys"}
     THEN keep(sendJSON([kind |-> path]))
     ELSE IF method = "POST"
               /\ path \in {"/route", "/ask", "/batch", "/pool/add",
                             "/pool/remove"}
     THEN IF parsed[1] = "throw" THEN keep(sendError(parsed[2], 500))
          ELSE IF ~CanRead(body) THEN keep(sendError("TypeError", 500))
          ELSE CASE path = "/route" ->
                 IF ~Truthy(OptGet(body, "query"))
                 THEN keep(sendError("Missing query field", 400))
                 ELSE keep(sendJSON(
                        [kind |-> path,
                         query |-> OptGet(body, "query"),
                         kVector |-> Routed(QueryIndex(OptGet(body, "query"))).kVector]))
            [] path = "/ask" ->
                 IF ~Truthy(OptGet(body, "query"))
                 THEN keep(sendError("Missing query field", 400))
                 ELSE The({
                   [file |-> r[1],
                    response |->
                      IF r[2][1] = "throw" THEN sendError(r[2][2], 500)
                      ELSE sendJSON(
                             [kind |-> path,
                              query |-> OptGet(body, "query"),
                              result |-> r[2][2]])] :
                   r \in {execute(file, dir, t,
                                  Routed(QueryIndex(OptGet(body, "query"))),
                                  Options(Truthy(OptGet(body, "local")),
                                          OrElse(OptGet(body, "provider"), Null),
                                          FALSE),
                                  env)}})
            [] path = "/batch" ->
                 IF \/ ~Truthy(OptGet(body, "queries"))
                    \/ OptGet(body, "queries")[1] # "array"
                 THEN keep(sendError("Missing queries array", 400))
                 ELSE The({The({
                   [file |-> settled[1],
                    response |->
                      IF Thrown(settled[2]) # {}
                      THEN sendError("rejected", 500)
                      ELSE The({sendJSON([kind |-> path, results |-> results,
                                          totalTokens |-> totalTokens(results)]) :
                                  results \in {gather(QueryIndexes(OptGet(body, "queries")[2]),
                                                      settled[2], order)}})] :
                   settled \in {settleAll(started[1], dir, t,
                                          QueryIndexes(OptGet(body, "queries")[2]),
                                          started[2], env, order)}}) :
                   started \in {startAll(file, dir, t,
                                         QueryIndexes(OptGet(body, "queries")[2]),
                                         Options(Truthy(OptGet(body, "local")),
                                                 Undefined, FALSE),
                                         env)}})
            [] path = "/pool/add" ->
                 IF ~Truthy(OptGet(body, "provider")) \/ ~Truthy(OptGet(body, "key"))
                 THEN keep(sendError("Missing provider or key", 400))
                 ELSE The({
                   [file |-> r[1],
                    response |-> IF r[2] THEN sendError("ReferenceError", 500)
                                 ELSE sendJSON([kind |-> path, id |-> r[3].id])] :
                   r \in {addKey(file, dir, t, OptGet(body, "provider")[2],
                                 OptGet(body, "key"), OptGet(body, "label"))}})
            [] path = "/pool/remove" ->
                 IF ~Truthy(OptGet(body, "id"))
                 THEN keep(sendError("Missing key id", 400))
                 ELSE The({
                   [file |-> r[1],
                    response |-> IF r[2] THEN sendError("ReferenceError", 500)
                                 ELSE sendJSON([kind |-> path])] :
                   r \in {removeKey(file, dir, OptGet(body, "id")[2])}})
     ELSE keep(sendError("Not found", 404))

\* the bodies sent to a path
Bodies(path, ids) ==
  {Malformed, NoBody, Null, Obj(<<>>)}
    \cup (CASE path \in {"/route", "/ask"} ->
             {Obj(<< <<"query", Text(<<>>)>> >>)}
               \cup {Obj(<< <<"query", SampleQuery(q)>>, <<"local", Bool(l)>> >>) :
                       q \in 1..NumQueries, l \in BOOLEAN}
               \cup {Obj(<< <<"query", SampleQuery(q)>>,
                            <<"provider", Str("google")>> >>) :
                       q \in 1..NumQueries}
          [] path = "/batch" ->
             {Obj(<< <<"queries", SampleQuery(1)>> >>)}
               \cup {Obj(<< <<"queries",
                              Arr([i \in DOMAIN qs |-> SampleQuery(qs[i])])>> >>) :
                       qs \in UNION {[1..m -> 1..NumQueries] : m \in 0..MaxBatch}}
          [] path = "/pool/add" ->
             {Obj(<< <<"provider", Str(p)>> >>) : p \in AddedProviders}
               \cup {Obj(<< <<"key", Str("secret")>> >>)}
               \cup {Obj(<< <<"provider", Str(p)>>, <<"key", Str("secret")>> >>) :
                       p \in AddedProviders}
          [] path = "/pool/remove" ->
             {Obj(<< <<"id", <<"id", id>>>> >>) :
                id \in ids \cup {keyId("google", MaxNow + 1)}}
          [] OTHER -> {})

Methods == {"GET", "POST", "OPTIONS", "PUT"}
Paths ==
  {"/health", "/stats", "/keys", "/route", "/ask", "/batch", "/pool/add",
   "/pool/remove", "/nope"}

\* the orders in which the requests of a batch body can settle
BodyOrders(raw) ==
  IF raw[1] = "object" /\ OptGet(raw, "queries")[1] = "array"
  THEN Orders(Len(OptGet(raw, "queries")[2]))
  ELSE {<<>>}

\* the environment of a request that calls no collaborator
AnyEnvironment == CHOOSE e \in Environments : TRUE

\* a request that is not a POST to one of the routes with a body
HandleOther ==
  /\ \E method \in Methods, path \in Paths :
       /\ ~(method = "POST" /\ Bodies(path, PoolIds) # {})
       /\ \E r \in {handleRequest(poolFile, configDir, now, method, path,
                                   NoBody, AnyEnvironment,
                                   <<>>)} :
            /\ poolFile' = r.file
            /\ last' = <<"handleRequest",
                         [method |-> method, path |-> path, raw |-> NoBody],
                         r.response>>
  /\ UNCHANGED <<calls, now, chainFile, configDir, tampered>>

\* a POST to one of the routes that read a body
HandlePost ==
  /\ \E path \in Paths, env \in Environments :
       \E raw \in Bodies(path, PoolIds) :
         /\ path \notin {"/ask", "/batch"} => env = AnyEnvironment
         /\ \E order \in BodyOrders(raw) :
           \E r \in {handleRequest(poolFile, configDir, now, "POST", path,
                                    raw, env, order)} :
             /\ path = "/pool/add" => Len(Pool.keys) < MaxHttpKeys
             /\ UsageWithin(r.file, MaxPipeUsage)
             /\ poolFile' = r.file
             /\ last' = <<"handleRequest",
                          [method |-> "POST", path |-> path, raw |-> raw,
                           env |-> env, order |-> order],
                          r.response>>
  /\ UNCHANGED <<calls, now, chainFile, configDir, tampered>>

NextHttp == MakeConfigDir \/ HandleOther \/ HandlePost
SpecHttp == Init /\ [][NextHttp]_vars

\* POST /batch with an array of queries, as the request that follows the
\* set-up of the pool from the command line
HandleBatch ==
  /\ last[1] # "handleRequest"
  /\ \E env \in Environments :
       \E raw \in {b \in Bodies("/batch", {}) :
                     b[1] = "object" /\ OptGet(b, "queries")[1] = "array"} :
         \E order \in BodyOrders(raw) :
           \E r \in {handleRequest(poolFile, configDir, now, "POST", "/batch",
                                    raw, env, order)} :
             /\ poolFile' = r.file
             /\ last' = <<"handleRequest",
                          [method |-> "POST", path |-> "/batch", raw |-> raw,
                           env |-> env, order |-> order],
                          r.response>>
  /\ UNCHANGED <<calls, now, chainFile, configDir, tampered>>

NextBatch == MakeConfigDir \/ AddPipeKey \/ HandleBatch
SpecBatch == Init /\ [][NextBatch]_vars

(***************************************************************************)
(* Properties of the HTTP handler.                                         *)
(***************************************************************************)
BodyRoutes == {"/route", "/ask", "/batch", "/pool/add", "/pool/remove"}

\* the request reads a body
ReadsBody(req) == req.method = "POST" /\ req.path \in BodyRoutes

\* the request matches no route
UnknownRoute(req) ==
  /\ req.method # "OPTIONS"
  /\ ~ReadsBody(req)
  /\ ~(req.method = "GET" /\ req.path \in {"/health", "/stats", "/keys"})

\* the body parses to an object with the member
HasMember(raw, k) == raw[1] = "object" /\ Has(raw[2], k)

\* the body parses and lacks the field the route requires
LacksField(req) ==
  /\ ReadsBody(req)
  /\ req.raw # Malformed
  /\ CASE req.path \in {"/route", "/ask"} -> ~HasMember(req.raw, "query")
        [] req.path = "/batch" ->
             \/ ~HasMember(req.raw, "queries")
             \/ OptGet(req.raw, "queries")[1] # "array"
        [] req.path = "/pool/add" ->
             ~HasMember(req.raw, "provider") \/ ~HasMember(req.raw, "key")
        [] req.path = "/pool/remove" -> ~HasMember(req.raw, "id")

\* execute throws for the query of a POST /ask
AskThrows(req, file, dir, t) ==
  /\ req.method = "POST" /\ req.path = "/ask"
  /\ HasMember(req.raw, "query") /\ Truthy(OptGet(req.raw, "query"))
  /\ execute(file, dir, t, Routed(QueryIndex(OptGet(req.raw, "query"))),
             Options(Truthy(OptGet(req.raw, "local")),
                     OrElse(OptGet(req.raw, "provider"), Null), FALSE),
             req.env)[2][1] = "throw"

\* C26: a body that is not JSON is answered 400, a method and path that match
\* no route 404, and an exception thrown while handling 500 with the message
\* as error.
C26_StatusCodes ==
  [][last'[1] = "handleRequest" =>
       /\ (ReadsBody(last'[2]) /\ last'[2].raw = Malformed) =>
            last'[3].status = 400
       /\ UnknownRoute(last'[2]) => last'[3].status = 404
       /\ AskThrows(last'[2], poolFile, configDir, now) =>
            /\ last'[3].status = 500
            /\ last'[3].body.kind = "error"]_vars

\* what the handler answers: a body that is not JSON gets 500
C26_AsHandled ==
  [][last'[1] = "handleRequest" =>
       /\ (ReadsBody(last'[2]) /\ last'[2].raw = Malformed) =>
            /\ last'[3] = sendError("Invalid JSON", 500)
            /\ poolFile' = poolFile
       /\ UnknownRoute(last'[2]) => last'[3].status = 404
       /\ AskThrows(last'[2], poolFile, configDir, now) =>
            /\ last'[3].status = 500
            /\ last'[3].body.kind = "error"]_vars

\* C27: a POST whose body lacks the field its route requires is answered 400
\* and leaves the pool and the chain as they were.
C27_MissingField400 ==
  [][(last'[1] = "handleRequest" /\ LacksField(last'[2])) =>
       /\ last'[3].status = 400
       /\ poolFile' = poolFile
       /\ chainFile' = chainFile]_vars

\* C27 for the bodies other than null
C27_MissingFieldNotNull ==
  [][(/\ last'[1] = "handleRequest"
      /\ LacksField(last'[2])
      /\ last'[2].raw # Null) =>
       /\ last'[3].status = 400
       /\ poolFile' = poolFile
       /\ chainFile' = chainFile]_vars

\* the tokens of the first n results together
RECURSIVE TokenSum(_, _)
TokenSum(results, n) ==
  IF n = 0 THEN 0 ELSE TokenSum(results, n - 1) + results[n].tokens

\* C28: POST /batch answers with one result for every query, the result at
\* index i being that of the query at index i whatever the order in which
\* the requests settle, and with totalTokens the sum of their tokens.
C28_BatchByIndex ==
  (/\ last[1] = "handleRequest"
   /\ last[2].path = "/batch"
   /\ last[3].status = 200) =>
    LET queries == OptGet(last[2].raw, "queries")[2]
        results == last[3].body.results
    IN /\ Len(results) = Len(queries)
       /\ \A i \in DOMAIN queries :
            /\ results[i].query = queries[i]
            /\ results[i].kVector = classifySample(QueryIndex(queries[i]))
            /\ results[i].tier \in
                 IF Routed(QueryIndex(queries[i])).handler.tier = "local"
                 THEN {"local"} ELSE {"template", "api", "local"}
       /\ last[3].body.totalTokens = TokenSum(results, Len(results))

\* two different queries whose requests settle in the reverse order, one
\* answered by the local model and one by a provider
C28_Witness ==
  /\ last[1] = "handleRequest"
  /\ last[2].path = "/batch"
  /\ last[3].status = 200
  /\ last[2].order = <<2, 1>>
  /\ last[3].body.results[1].tier = "local"
  /\ last[3].body.results[2].tier = "api"
  /\ last[3].body.results[1].query # last[3].body.results[2].query
  /\ last[3].body.totalTokens = 200

(***************************************************************************)
(* The two documents on disk when they are missing or damaged.             *)
(***************************************************************************)
\* the pool file gets contents JSON.parse rejects
DamagePool ==
  /\ poolFile.state = "ok"
  /\ poolFile' = [NoPoolFile EXCEPT !.state = "corrupt"]
  /\ last' = <<"damage", "pool">>
  /\ UNCHANGED <<calls, now, chainFile, configDir, tampered>>

\* the chain file gets contents JSON.parse rejects
DamageChain ==
  /\ chainFile.state = "ok"
  /\ chainFile' = [NoChainFile EXCEPT !.state = "corrupt"]
  /\ last' = <<"damage", "chain">>
  /\ UNCHANGED <<calls, now, poolFile, configDir, tampered>>

\* recordUsage for a key the caller drew earlier
RecordDrawn ==
  /\ \E provider \in AddedProviders :
       /\ usageTotal(Pool, keyId(provider, now)) + 100 <= MaxPipeUsage
       /\ \E r \in {recordUsage(poolFile, configDir, now,
                                 keyId(provider, now), 100)} :
            /\ poolFile' = r[1]
            /\ last' = <<"recordUsage", r[2], keyId(provider, now), 100>>
  /\ UNCHANGED <<calls, now, chainFile, configDir, tampered>>

NextPersist ==
  \/ MakeConfigDir
  \/ AddPipeKey
  \/ GetNextKey
  \/ RecordDrawn
  \/ DamagePool
  \/ LogExchangeUpTo(MaxTamperBlocks)
  \/ VerifyChain
  \/ DamageChain

SpecPersist == Init /\ [][NextPersist]_vars

\* C29: when the pool file or the chain file is missing or does not parse,
\* the call that loads it works on the empty document and does not throw:
\* getNextKey returns the local sentinel, addKey and recordUsage write a pool
\* of that one key or that one count, logExchange writes block 1 and
\* verifyChain reports a valid chain.
C29_LoadFailureIsData ==
  [][/\ (last'[1] = "getNextKey" /\ poolFile.state # "ok") =>
          last'[2] = <<"local">>
     /\ (last'[1] = "addKey" /\ poolFile.state # "ok") =>
          /\ ~last'[2]
          /\ Len(loadPool(poolFile').keys) = 1
     /\ (last'[1] = "recordUsage" /\ poolFile.state # "ok") =>
          /\ ~last'[2]
          /\ loadPool(poolFile').keys = <<>>
          /\ usageTotal(loadPool(poolFile'), last'[3]) = last'[4]
     /\ (last'[1] = "logExchange" /\ chainFile.state # "ok") =>
          /\ Len(chainFile'.blocks) = 1
          /\ Get(chainFile'.blocks[1], "id") = Num(1)
          /\ Get(chainFile'.blocks[1], "prevHash") = ZeroHash
     /\ (last'[1] = "verifyChain" /\ chainFile.state # "ok") =>
          last'[2] = <<TRUE, <<>>>>]_vars

\* C29 for the calls made when the directory of the documents exists
C29_WhenDirectoryExists ==
  [][configDir =>
       /\ (last'[1] = "getNextKey" /\ poolFile.state # "ok") =>
            last'[2] = <<"local">>
       /\ (last'[1] = "addKey" /\ poolFile.state # "ok") =>
            /\ ~last'[2]
            /\ Len(loadPool(poolFile').keys) = 1
       /\ (last'[1] = "recordUsage" /\ poolFile.state # "ok") =>
            /\ ~last'[2]
            /\ loadPool(poolFile').keys = <<>>
            /\ usageTotal(loadPool(poolFile'), last'[3]) = last'[4]
       /\ (last'[1] = "logExchange" /\ chainFile.state # "ok") =>
            /\ Len(chainFile'.blocks) = 1
            /\ Get(chainFile'.blocks[1], "id") = Num(1)
            /\ Get(chainFile'.blocks[1], "prevHash") = ZeroHash
       /\ (last'[1] = "verifyChain" /\ chainFile.state # "ok") =>
            last'[2] = <<TRUE, <<>>>>]_vars


(***************************************************************************)
(* Mutating calls of several processes on the two documents.  A call reads *)
(* the whole document (readFileSync in loadPool or loadChain), changes its *)
(* copy and writes the whole copy (writeFileSync in savePool or            *)
(* saveChain); nothing is held between the two.  Within one process the    *)
(* calls are synchronous; the spans of different processes interleave.     *)
(***************************************************************************)

\* calls one process makes
MaxRaceCalls == 2

\* the tokens argument of the calls of recordUsage process p makes
RaceTokens(p) == 50 * p

\* the mutating calls process p makes: recordUsage(keyId, tokens) for the
\* google key added at time 0, getNextKey(), logExchange(...Exchange(p))
PoolCallsOf(p) ==
  {<<"recordUsage", keyId("google", 0), RaceTokens(p)>>,
   <<"getNextKey", Null>>}

ChainCallsOf(p) == {<<"logExchange", p>>}

\* what the call makes of the file it read: the file it would leave
onSnapshot(call, snapshot, dir, t) ==
  CASE call[1] = "recordUsage" ->
         recordUsage(snapshot, dir, t, call[2], call[3])[1]
    [] call[1] = "getNextKey" -> getNextKey(snapshot, dir, t, call[2])[1]
    [] call[1] = "logExchange" ->
         logExchange(snapshot, t, Exchange(call[2]).query,
                     Exchange(call[2]).response, Exchange(call[2]).kVector,
                     Exchange(call[2]).metadata).file

\* the call holding the file from its read to its write
readModifyWriteLocked(call, snapshot, file, dir, t) ==
  onSnapshot(call, file, dir, t)

\* the file after the call's write: the copy read earlier with the call's
\* change, or the file as it is when the call writes nothing (savePool threw,
\* getNextKey had nothing to reset)
readModifyWrite(call, snapshot, file, dir, t) ==
  LET out == onSnapshot(call, snapshot, dir, t)
  IN IF out = snapshot THEN file ELSE out

\* process p enters a call on the pool: loadPool
LoadPool(p) ==
  /\ calls[p].pc = "idle"
  /\ Len(calls[p].finished) < MaxRaceCalls
  /\ \E call \in PoolCallsOf(p) :
       calls' = [calls EXCEPT ![p].pc = "loaded", ![p].op = call,
                              ![p].doc = poolFile]
  /\ last' = <<"load", p>>
  /\ UNCHANGED <<now, chainFile, poolFile, configDir, tampered>>

\* process p enters logExchange: loadChain, which makes the directory
LoadChain(p) ==
  /\ calls[p].pc = "idle"
  /\ Len(calls[p].finished) < MaxRaceCalls
  /\ \E call \in ChainCallsOf(p) :
       calls' = [calls EXCEPT ![p].pc = "loaded", ![p].op = call,
                              ![p].doc = chainFile]
  /\ configDir' = ensureChainDir(configDir)
  /\ last' = <<"load", p>>
  /\ UNCHANGED <<now, chainFile, poolFile, tampered>>

\* process p finishes its call: savePool or saveChain, and the return
Save(p) ==
  /\ calls[p].pc = "loaded"
  /\ \E call \in {calls[p].op}, snapshot \in {calls[p].doc} :
       /\ IF call \in PoolCallsOf(p)
          THEN /\ poolFile' = readModifyWrite(call, snapshot, poolFile,
                                              configDir, now)
               /\ UNCHANGED chainFile
          ELSE /\ chainFile' = readModifyWrite(call, snapshot, chainFile,
                                               configDir, now)
               /\ UNCHANGED poolFile
       /\ calls' = [calls EXCEPT ![p] = [NoCall EXCEPT
                      !.finished = Append(calls[p].finished, call)]]
       /\ last' = <<"save", p>>
  /\ UNCHANGED <<now, configDir, tampered>>

\* the google key is added from the command line while the pool has no key
AddRaceKey ==
  /\ Pool.keys = <<>>
  /\ \E r \in {addKey(poolFile, configDir, now, "google", Str("secret"), Null)} :
       /\ poolFile' = r[1]
       /\ last' = <<"addKey", r[2]>>
  /\ UNCHANGED <<calls, now, chainFile, configDir, tampered>>

NextRace ==
  \/ MakeConfigDir
  \/ AddRaceKey
  \/ \E p \in Procs : LoadPool(p)
  \/ \E p \in Procs : LoadChain(p)
  \/ \E p \in Procs : Save(p)

SpecRace == Init /\ [][NextRace]_vars


\* the calls process p has finished
Finished(p) == {calls[p].finished[i] : i \in DOMAIN calls[p].finished}

\* C30: a mutating call writes the document it read with its own change,
\* whatever was written to the file since it read it (last write wins): after
\* the save of a recordUsage the file holds the keys of the copy read and, for
\* the id, the total of the copy read plus the tokens; after the save of a
\* getNextKey that resets the day every total in the file is the one of the
\* copy read; after the save of a logExchange the file holds the blocks of
\* the copy read and one more.
C30_LastWriteWins ==
  [][\A p \in Procs :
       (calls[p].pc = "loaded" /\ calls'[p].pc = "idle") =>
         LET call == calls[p].op
             snapshot == calls[p].doc
         IN /\ (call[1] = "recordUsage" /\ configDir) =>
                 /\ usageTotal(loadPool(poolFile'), call[2])
                      = usageTotal(loadPool(snapshot), call[2]) + call[3]
                 /\ loadPool(poolFile').keys = loadPool(snapshot).keys
            /\ (call[1] = "getNextKey" /\ configDir
                  /\ loadPool(snapshot).lastRotation # DateStr(now)) =>
                 /\ loadPool(poolFile').lastRotation = DateStr(now)
                 /\ \A id \in DOMAIN loadPool(poolFile').usage :
                      usageTotal(loadPool(poolFile'), id)
                        = usageTotal(loadPool(snapshot), id)
            /\ (call[1] = "logExchange") =>
                 /\ Len(chainFile'.blocks) = Len(snapshot.blocks) + 1
                 /\ SubSeq(chainFile'.blocks, 1, Len(snapshot.blocks))
                      = snapshot.blocks]_vars

\* both processes have finished a recordUsage on the google key and a
\* logExchange; the total of the key is the amount of one of the two calls
\* and the chain holds one block
C30_Witness ==
  /\ \A p \in Procs :
       /\ calls[p].pc = "idle"
       /\ <<"recordUsage", keyId("google", 0), RaceTokens(p)>> \in Finished(p)
       /\ <<"logExchange", p>> \in Finished(p)
  /\ usageTotal(Pool, keyId("google", 0)) \in {RaceTokens(p) : p \in Procs}
  /\ Len(chainFile.blocks) = 1


(***************************************************************************)
(* execute step by step.  A call of execute runs without interruption up   *)
(* to each await of a fetch; the answer of the provider or of Ollama       *)
(* arrives in a later step, and other calls run in between (the server     *)
(* starts the executes of a batch together, and serves requests while      *)
(* others wait).  In calls[p], doc holds the drawn key and the tiers the   *)
(* call attempted so far, finished what the returned calls attempted.      *)
(***************************************************************************)

\* calls of execute one process makes
MaxAwaitCalls == 1

\* a call at an await, or returned
Step(file, pc, key, trace) ==
  [file |-> file, pc |-> pc, key |-> key, trace |-> trace]

\* executeLocal up to its fetch
localPath(file, key, trace) == Step(file, "ollama", key, Append(trace, "local"))

\* the catch block of executeAPI, after which the next key is drawn and asked
providerFailedRetrying(file, dir, t, key, trace) ==
  The({IF next[2][1] = "key"
       THEN Step(next[1], "provider", next[2][2], trace \o <<"draw", "api">>)
       ELSE localPath(next[1], key, trace) :
         next \in {getNextKey(markUnhealthy(file, dir, key.id)[1], dir, t,
                              Null)}})

\* the catch block of executeAPI: markUnhealthy, then executeLocal
providerFailed(file, dir, t, key, trace) ==
  localPath(markUnhealthy(file, dir, key.id)[1], key, trace)

\* executeAPI up to its fetch, or to the throw of getNextKey
apiPath(file, dir, t, provider, trace) ==
  The({IF next[2][1] = "throw" THEN Step(next[1], "idle", Null, trace)
       ELSE IF next[2][1] = "local" THEN localPath(next[1], Null, trace)
       ELSE IF next[2][2].provider \in {"google", "anthropic", "openrouter"}
       THEN Step(next[1], "provider", next[2][2], trace \o <<"draw", "api">>)
       ELSE providerFailed(next[1], dir, t, next[2][2], Append(trace, "draw")) :
         next \in {getNextKey(file, dir, t, provider)}})

\* execute up to its first await or to its return
enter(file, dir, t, routed, options, corpus) ==
  LET tier == routed.handler.tier
      templateKey == routed.handler.template
  IN IF options.forceLocal THEN localPath(file, Null, <<>>)
     ELSE IF tier = "template"
               /\ (corpus \/ (templateKey # Null /\ templateKey \in FallbackKeys))
     THEN Step(file, "idle", Null, <<"template">>)
     ELSE IF tier = "local" THEN localPath(file, Null, <<>>)
     ELSE apiPath(file, dir, t, options.provider,
                  IF tier = "template" THEN <<"template">> ELSE <<>>)

\* the call of process p is where step says
Moved(p, step) ==
  IF step.pc = "idle"
  THEN [NoCall EXCEPT !.finished = Append(calls[p].finished, <<"execute">>)]
  ELSE [calls[p] EXCEPT !.pc = step.pc, !.op = <<"execute">>,
                        !.doc = [key |-> step.key, trace |-> step.trace]]

\* the providers of the keys in the pool: one the code sends requests to,
\* one it has a quota for and sends no request to, one it does not know
AwaitProviders == {"google", "ollama", "mistral"}

AddAwaitKey ==
  /\ Len(Pool.keys) < MaxExecKeys
  /\ \E provider \in AwaitProviders :
       \E r \in {addKey(poolFile, configDir, now, provider, Str("secret"),
                        Null)} :
         /\ poolFile' = r[1]
         /\ last' = <<"addKey", r[2]>>
  /\ UNCHANGED <<calls, now, chainFile, configDir, tampered>>

\* what the step of process p did: it returned after these attempts, or it
\* is at an await
Did(p, step) ==
  IF step.pc = "idle" THEN <<"return", p, step.trace>> ELSE <<"await", p>>

\* process p calls execute(routedQuery, options)
Enter(p) ==
  /\ calls[p].pc = "idle"
  /\ Len(calls[p].finished) < MaxAwaitCalls
  /\ \E routed \in ExecRouted, forceLocal \in BOOLEAN, provider \in {Null},
        corpus \in BOOLEAN :
       \E step \in {enter(poolFile, configDir, now, routed,
                          Options(forceLocal, provider, FALSE), corpus)} :
         /\ poolFile' = step.file
         /\ calls' = [calls EXCEPT ![p] = Moved(p, step)]
         /\ last' = Did(p, step)
  /\ UNCHANGED <<now, chainFile, configDir, tampered>>

\* the provider answers the request of process p, or the request fails
ProviderReturns(p) ==
  /\ calls[p].pc = "provider"
  /\ \E apiOk \in BOOLEAN, key \in {calls[p].doc.key} :
       \E step \in
            {IF apiOk
             THEN Step(recordUsage(poolFile, configDir, now, key.id,
                                   apiTokens(key.provider,
                                             Env(FALSE, TRUE, TRUE, 100)))[1],
                       "idle", key, calls[p].doc.trace)
             ELSE providerFailed(poolFile, configDir, now, key,
                                 calls[p].doc.trace)} :
         /\ poolFile' = step.file
         /\ calls' = [calls EXCEPT ![p] = Moved(p, step)]
         /\ last' = Did(p, step)
  /\ UNCHANGED <<now, chainFile, configDir, tampered>>

\* Ollama answers the request of process p, or the request fails and the
\* catch block of executeLocal reads TEMPLATES
OllamaReturns(p) ==
  /\ calls[p].pc = "ollama"
  /\ \E localOk \in BOOLEAN :
       \E step \in {Step(poolFile, "idle", Null,
                         IF localOk THEN calls[p].doc.trace
                         ELSE Append(calls[p].doc.trace, "builtin"))} :
         /\ calls' = [calls EXCEPT ![p] = Moved(p, step)]
         /\ last' = Did(p, step)
  /\ UNCHANGED <<now, chainFile, poolFile, configDir, tampered>>

NextAwait ==
  \/ MakeConfigDir
  \/ AddAwaitKey
  \/ \E p \in Procs : Enter(p)
  \/ \E p \in Procs : ProviderReturns(p)
  \/ \E p \in Procs : OllamaReturns(p)

\* every request is answered or fails
SpecAwait ==
  /\ Init
  /\ [][NextAwait]_vars
  /\ \A p \in Procs : WF_vars(ProviderReturns(p)) /\ WF_vars(OllamaReturns(p))

\* the attempts of the call process p is in, or of the call it just
\* returned from
TraceOf(p) ==
  IF calls[p].pc # "idle" THEN calls[p].doc.trace
  ELSE IF last[1] = "return" /\ last[2] = p THEN last[3]
  ELSE <<>>

\* the place of an attempt in the order of the tiers
TierOrder(attempt) ==
  CASE attempt = "template" -> 1 [] attempt = "draw" -> 2
    [] attempt = "api" -> 3 [] attempt = "local" -> 4
    [] attempt = "builtin" -> 5

Times(trace, attempt) ==
  Cardinality({i \in DOMAIN trace : trace[i] = attempt})

\* C33: every call of execute returns or throws once its requests are
\* answered or fail, and on its way it looks up the templates, draws a key,
\* asks the provider, asks Ollama and reads the builtin templates in that
\* order, each at most once.
C33_ExecuteTerminates ==
  /\ [](\A p \in Procs :
          /\ \A i, j \in DOMAIN TraceOf(p) :
               i < j => TierOrder(TraceOf(p)[i]) < TierOrder(TraceOf(p)[j])
          /\ Times(TraceOf(p), "draw") <= 1
          /\ Times(TraceOf(p), "api") <= 1
          /\ Times(TraceOf(p), "local") <= 1)
  /\ \A p \in Procs : (calls[p].pc # "idle") ~> (calls[p].pc = "idle")

\* a call that went through every tier: the templates missed, the request
\* to the provider of the drawn key failed, and so did the one to Ollama
C33_Witness ==
  /\ last[1] = "return"
  /\ calls[last[2]].pc = "idle"
  /\ last[3] = <<"template", "draw", "api", "local", "builtin">>

(***************************************************************************)
(* A query classified, routed and executed: infer with options.noLog.      *)
(***************************************************************************)
\* execute(await routeQuery(query), options), once in a behaviour
AskClassified ==
  /\ last[1] # "ask"
  /\ \E picks \in Picks, pad \in Padding :
       \E routed \in {routeQuery(Query(picks, pad),
                                 classifyQuery(Query(picks, pad)))} :
         \E forceLocal \in BOOLEAN, env \in Environments :
           \E r \in {execute(poolFile, configDir, now, routed,
                             Options(forceLocal, Null, TRUE), env)} :
             /\ poolFile' = r[1]
             /\ last' = <<"ask",
                          [routed |-> routed, forceLocal |-> forceLocal,
                           provider |-> Null, env |-> env],
                          r[2]>>
  /\ UNCHANGED <<calls, now, chainFile, configDir, tampered>>

NextRouted ==
  \/ MakeConfigDir
  \/ AddPipeKey
  \/ AskClassified

SpecRouted == Init /\ [][NextRouted]_vars

\* C34: a classified query routed to tier template has a template key of
\* the builtin table; execute without forceLocal answers it in the template
\* tier with no tokens and no cost, draws no key and leaves the pool as it
\* is; and execute goes to the API tier only for an escalated tag.
C34_TemplateTierAnswers ==
  [][last'[1] = "ask" =>
       LET call == last'[2]
           outcome == last'[3]
       IN /\ call.routed.handler.tier = "template" =>
               call.routed.handler.template \in FallbackKeys
          /\ (call.routed.handler.tier = "template" /\ ~call.forceLocal) =>
               /\ outcome[1] = "ok"
               /\ outcome[2].tier = "template"
               /\ outcome[2].tokens = 0
               /\ outcome[2].cost = 0
               /\ outcome[2].response \in
                    {Text(<<"O", "k">>),
                     FALLBACK_TEMPLATES(call.routed.handler.template)[1]}
               /\ ~ReachesAPI(call)
               /\ poolFile' = poolFile
          /\ ReachesAPI(call) => FlagIn(call.routed.kVector)]_vars

\* a query of the template tier that the corpus has nothing for is answered
\* from the builtin table while a healthy key is in the pool
C34_Witness ==
  /\ last[1] = "ask"
  /\ last[2].routed.handler.tier = "template"
  /\ ~last[2].forceLocal
  /\ ~last[2].env.corpus
  /\ last[3][2].tier = "template"
  /\ last[3][2].tokens = 0
  /\ \E i \in DOMAIN Pool.keys :
       Pool.keys[i].healthy /\ Pool.keys[i].provider = "google"

\* an escalated query is taken to the API tier and answered by the provider
C34_WitnessApi ==
  /\ last[1] = "ask"
  /\ ReachesAPI(last[2])
  /\ FlagIn(last[2].routed.kVector)
  /\ last[3][1] = "ok"
  /\ last[3][2].tier = "api"

(***************************************************************************)
(* Executions in flight on a key close to its quota.                       *)
(***************************************************************************)
\* the tokens a provider request is counted for
RequestTokens == apiTokens("google", Env(FALSE, TRUE, TRUE, 100))

\* earlier requests have used the google key up to one request short of
\* its quota
UseUp ==
  /\ Len(Pool.keys) = 1
  /\ usageTotal(Pool, Pool.keys[1].id) = 0
  /\ \E r \in {recordUsage(poolFile, configDir, now, Pool.keys[1].id,
                           GoogleFreeLimit - RequestTokens)} :
       /\ poolFile' = r[1]
       /\ last' = <<"recordUsage", r[2], Pool.keys[1].id,
                    GoogleFreeLimit - RequestTokens>>
  /\ UNCHANGED <<calls, now, chainFile, configDir, tampered>>

NextQuota ==
  \/ MakeConfigDir
  \/ AddRaceKey
  \/ UseUp
  \/ \E p \in Procs : Enter(p)
  \/ \E p \in Procs : ProviderReturns(p)
  \/ \E p \in Procs : OllamaReturns(p)

SpecQuota == Init /\ [][NextQuota]_vars

\* the calls of execute waiting for the provider with key i of the pool
InFlight(i) ==
  {p \in Procs : /\ calls[p].pc = "provider"
                 /\ calls[p].doc.key.id = Pool.keys[i].id}

\* C35: in every state of the pool the usage today of each key is at most
\* the quota of its provider, executions in flight together included.
C35_UsageWithinQuota ==
  \A i \in DOMAIN Pool.keys :
    usageToday(Pool, Pool.keys[i].id) <= freeLimit(Pool.keys[i].provider)

\* C35 amended: a key is drawn only while its usage today is below the
\* quota of its provider, and the usage is counted when the answer arrives,
\* whatever the quota: with the requests in flight counted in, the usage
\* stays below the quota plus one request for each execution in flight
\* together.
C35_DrawnBelowQuota ==
  /\ [](\A i \in DOMAIN Pool.keys :
          usageToday(Pool, Pool.keys[i].id)
              + RequestTokens * Cardinality(InFlight(i))
            < freeLimit(Pool.keys[i].provider)
                + RequestTokens * Cardinality(Procs))
  /\ [][\A p \in Procs :
          (calls[p].pc = "idle" /\ calls'[p].pc = "provider") =>
            usageToday(loadPool(poolFile'), calls'[p].doc.key.id)
              < freeLimit(calls'[p].doc.key.provider)]_vars

\* two executions drew the key one request short of its quota before either
\* counted its tokens; both have returned and the usage is above the quota
C35_Witness ==
  /\ \A p \in Procs : calls[p].pc = "idle" /\ calls[p].finished # <<>>
  /\ Len(Pool.keys) = 1
  /\ usageToday(Pool, Pool.keys[1].id) = GoogleFreeLimit + RequestTokens

(***************************************************************************)
(* Pools of keys of any provider.                                          *)
(***************************************************************************)
\* provider strings given to addKey: a quota of a million, a quota of 0, no
\* limit, and a provider PROVIDERS has no entry for
AnyProviders == {"google", "anthropic", "ollama", "mistral"}

AddAnyKey ==
  /\ Len(Pool.keys) < MaxExecKeys
  /\ \E provider \in AnyProviders :
       \E r \in {addKey(poolFile, configDir, now, provider, Str("secret"),
                        Null)} :
         /\ poolFile' = r[1]
         /\ last' = <<"addKey", r[2]>>
  /\ UNCHANGED <<calls, now, chainFile, configDir, tampered>>

NextProviders ==
  \/ TickUpTo(MaxNow)
  \/ MakeConfigDir
  \/ AddAnyKey
  \/ GetNextKey

SpecProviders == Init /\ [][NextProviders]_vars

\* C36: on a pool that addKey wrote, whatever the providers of its keys,
\* getNextKey does not throw: it returns a key or the local sentinel.
C36_NeverRaises ==
  [][(last'[1] = "getNextKey" /\ poolFile.state = "ok") =>
       last'[2][1] \in {"key", "local"}]_vars

\* C36 for the calls that select no key of a provider without an entry in
\* PROVIDERS
C36_ConfiguredProviders ==
  [][(/\ last'[1] = "getNextKey"
      /\ poolFile.state = "ok"
      /\ \A i \in candidates(Pool, last'[3]) :
           Pool.keys[i].provider \in ConfiguredProviders) =>
       last'[2][1] \in {"key", "local"}]_vars

\* getNextKey returned the key of unlimited quota after marking the key of
\* quota 0 that stood before it
C36_QuotaZeroThenUnlimited ==
  /\ last[1] = "getNextKey"
  /\ last[2][1] = "key"
  /\ last[2][2].provider = "ollama"
  /\ \E i \in DOMAIN Pool.keys :
       Pool.keys[i].provider = "anthropic" /\ ~Pool.keys[i].healthy

(***************************************************************************)
(* A block taken out of the chain file from outside the program.           *)
(***************************************************************************)
\* the blocks without block i
without(blocks, i) ==
  [j \in 1..(Len(blocks) - 1) |-> IF j < i THEN blocks[j] ELSE blocks[j + 1]]

\* block i of the n blocks of the file is deleted
RemoveBlock ==
  /\ tampered = 0
  /\ chainFile.state = "ok"
  /\ \E i \in DOMAIN Blocks :
       /\ chainFile' = [chainFile EXCEPT !.blocks = without(Blocks, i)]
       /\ tampered' = i
       /\ last' = <<"remove", i, Len(Blocks)>>
  /\ UNCHANGED <<calls, now, poolFile, configDir>>

\* logExchange of an answer from a template or from the API
AppendBlock ==
  /\ Len(loadChain(chainFile, now).blocks) < MaxBlocks
  /\ \E p \in {1, 2} :
       \E r \in {logExchange(chainFile, now, Exchange(p).query,
                             Exchange(p).response, Exchange(p).kVector,
                             Exchange(p).metadata)} :
         /\ chainFile' = r.file
         /\ last' = <<"logExchange", r.block>>
  /\ configDir' = ensureChainDir(configDir)
  /\ UNCHANGED <<calls, now, poolFile, tampered>>

NextRemove ==
  \/ AppendBlock
  \/ RemoveBlock
  \/ VerifyChain

SpecRemove == Init /\ [][NextRemove]_vars

\* C37: after any one block, the first, a middle one or the last, is removed
\* from a chain that verifies, verifyChain returns valid=false.
C37_RemovalDetected ==
  [][(last'[1] = "remove" /\ verifyChain(chainFile, now)[1]) =>
       ~verifyChain(chainFile', now)[1]]_vars

\* C37 amended: after one block is removed from a chain that verifies,
\* verifyChain returns valid=false, with a prevHash mismatch and a hash
\* mismatch at the block that followed the removed one, exactly when the
\* removed block was not the last; without its last block the chain
\* verifies.
C37_InnerRemovalDetected ==
  [][(last'[1] = "remove" /\ verifyChain(chainFile, now)[1]) =>
       \E i \in {last'[2]}, after \in {verifyChain(chainFile', now)} :
         /\ ~after[1] <=> i < last'[3]
         /\ i < last'[3] =>
              after[2] = << <<Num(i + 1), "prevHash mismatch">>,
                            <<Num(i + 1), "hash mismatch">> >>]_vars

\* the middle block of three was removed and verifyChain reports block 3
C37_Witness ==
  /\ last[1] = "verifyChain"
  /\ tampered = 2
  /\ Len(Blocks) = 2
  /\ last[2] = <<FALSE, << <<Num(3), "prevHash mismatch">>,
                          <<Num(3), "hash mismatch">> >> >>

\* the last block of three was removed and verifyChain reports a valid chain
C37_WitnessLast ==
  /\ last[1] = "verifyChain"
  /\ tampered = 3
  /\ Len(Blocks) = 2
  /\ last[2] = <<TRUE, <<>>>>

(***************************************************************************)
(* The chain file made unparsable with its blocks still in it (a write cut *)
(* short, bytes added from outside).                                       *)
(***************************************************************************)
GarbleChain ==
  /\ chainFile.state = "ok"
  /\ chainFile' = [chainFile EXCEPT !.state = "corrupt"]
  /\ last' = <<"damage", "chain">>
  /\ UNCHANGED <<calls, now, poolFile, configDir, tampered>>

NextGarble ==
  \/ TickUpTo(MaxChainNow)
  \/ AppendBlock
  \/ GarbleChain
  \/ VerifyChain

SpecGarble == Init /\ [][NextGarble]_vars

\* C38: when the chain file does not parse, logExchange does not replace it
\* by a chain without the blocks that were in it, and verifyChain does not
\* report valid=true.
C38_NoLossOnLoadFailure ==
  [][chainFile.state = "corrupt" =>
       /\ last'[1] = "logExchange" =>
            /\ Len(chainFile'.blocks) >= Len(chainFile.blocks)
            /\ SubSeq(chainFile'.blocks, 1, Len(chainFile.blocks))
                 = chainFile.blocks
       /\ last'[1] = "verifyChain" => ~last'[2][1]]_vars

\* what the code does when the chain file does not parse: logExchange
\* writes a chain of the new block alone, numbered 1 and linked to the zero
\* sentinel, and verifyChain reports a valid chain and leaves the file
C38_AsLoaded ==
  [][chainFile.state = "corrupt" =>
       /\ last'[1] = "logExchange" =>
            /\ chainFile'.state = "ok"
            /\ Len(chainFile'.blocks) = 1
            /\ Get(chainFile'.blocks[1], "id") = Num(1)
            /\ Get(chainFile'.blocks[1], "prevHash") = ZeroHash
       /\ last'[1] = "verifyChain" =>
            /\ last'[2] = <<TRUE, <<>>>>
            /\ chainFile' = chainFile]_vars

\* the file holds the block appended at time 1, numbered 1, alone
C38_BlocksLost ==
  /\ last[1] = "logExchange"
  /\ chainFile.state = "ok"
  /\ Len(chainFile.blocks) = 1
  /\ Get(last[2], "id") = Num(1)
  /\ Get(last[2], "timestamp") = Iso(1)

\* the return statement of selectHandler that answers the tag: the
\* escalation path, the template path, the local path or the last one
selectBranch(kVector) ==
  IF Truthy(OptGet(OptGet(kVector, "escalate"), "escalate")) THEN "escalation"
  ELSE IF OptGet(kVector, "rank")[2] <= 6 THEN "template"
  ELSE IF OptGet(kVector, "rank")[2] <= 10 THEN "local"
  ELSE "fallback"

\* C32: for every tag classifyQuery produces, selectHandler does not reach
\* its last return (tier opus, reason high_complexity): a tag of rank 11 or
\* more has its escalate flag set, and every selection of the API tier for a
\* classified query is made on the escalation path.
C32_FallbackUnreached ==
  /\ last[1] = "classifyQuery" =>
       /\ selectBranch(last[3]) # "fallback"
       /\ RankIn(last[3]) >= 11 => FlagIn(last[3])
  /\ last[1] \in {"routeQuery", "scenario"} =>
       /\ selectBranch(last[3].kVector) # "fallback"
       /\ RankIn(last[3].kVector) >= 11 => FlagIn(last[3].kVector)
       /\ last[3].handler.tier = "opus" =>
            /\ selectBranch(last[3].kVector) = "escalation"
            /\ last[3].handler.reason = Str(ReasonIn(last[3].kVector))

\* a query of a known suit and of rank 11 or more, routed to the API tier
\* for its complexity on the escalation path
C32_Witness ==
  /\ last[1] = "routeQuery"
  /\ SuitIn(last[3].kVector) # "unknown"
  /\ RankIn(last[3].kVector) >= 11
  /\ last[3].handler.tier = "opus"
  /\ last[3].handler.reason = Str("high_complexity")
  /\ selectBranch(last[3].kVector) = "escalation"

\* the last return answers a tag made by hand: rank 11 or more, flag not set
C32_FallbackByHand ==
  /\ last[1] = "selectHandler"
  /\ selectBranch(last[2]) = "fallback"
  /\ last[3].tier = "opus"

(***************************************************************************)
(* Termination of getNextKey.                                              *)
(***************************************************************************)
\* C31: getNextKey terminates: it calls itself at most once for every healthy
\* key in the scope of the provider asked for, each time after marking one
\* of them unhealthy, and ends with a key or the local sentinel.
C31_BoundedRecursion ==
  [][last'[1] = "getNextKey" =>
       \E provider \in {last'[3]} :
         /\ getNextKeyDepth(poolFile, configDir, now, provider)
              <= Cardinality(candidates(Pool, provider))
         /\ getNextKeyDepth(poolFile, configDir, now, provider)
              = Cardinality({i \in candidates(Pool, provider) :
                               ~loadPool(poolFile').keys[i].healthy})
         /\ last'[2][1] \in {"key", "local"}]_vars

\* C31 for the calls made when the directory of the pool exists
C31_WhenDirectoryExists ==
  [][(last'[1] = "getNextKey" /\ configDir) =>
       \E provider \in {last'[3]} :
         /\ getNextKeyDepth(poolFile, configDir, now, provider)
              <= Cardinality(candidates(Pool, provider))
         /\ getNextKeyDepth(poolFile, configDir, now, provider)
              = Cardinality({i \in candidates(Pool, provider) :
                               ~loadPool(poolFile').keys[i].healthy})
         /\ last'[2][1] \in {"key", "local"}]_vars

\* getNextKey called itself twice, marking both keys of the pool, and
\* returned the local sentinel
C31_DepthTwo ==
  /\ last[1] = "getNextKey"
  /\ last[2] = <<"local">>
  /\ Len(Pool.keys) = 2
  /\ \A i \in DOMAIN Pool.keys :
       ~Pool.keys[i].healthy /\ Exhausted(Pool, i)

(***************************************************************************)
(* A batch in which one pipeline throws.                                   *)
(***************************************************************************)
\* the outcome of every pipeline of the batch a step answers, computed from
\* the pool file the step started with
batchOutcomes(req) ==
  LET queries == QueryIndexes(OptGet(req.raw, "queries")[2])
      started == startAll(poolFile, configDir, now, queries,
                          Options(Truthy(OptGet(req.raw, "local")),
                                  Undefined, FALSE),
                          req.env)
  IN settleAll(started[1], configDir, now, queries, started[2], req.env,
               req.order)[2]

\* the step answers a POST /batch whose body holds an array of queries
AnswersBatch ==
  /\ last[1] # "handleRequest"
  /\ last'[1] = "handleRequest"
  /\ last'[2].method = "POST"
  /\ last'[2].path = "/batch"
  /\ last'[2].raw[1] = "object"
  /\ OptGet(last'[2].raw, "queries")[1] = "array"

\* the response carries the result of the query at index i
Carries(response, req, outcomes, i) ==
  /\ response.status = 200
  /\ i \in DOMAIN response.body.results
  /\ response.body.results[i] =
       batchEntry(QueryIndex(OptGet(req.raw, "queries")[2][i]), outcomes[i][2])

\* C39: when the pipeline of one query of a batch throws, the response still
\* carries the result of every query whose pipeline returned one.
C39_OthersReturned ==
  [][AnswersBatch =>
       LET outcomes == batchOutcomes(last'[2])
       IN Thrown(outcomes) # {} =>
            \A i \in DOMAIN outcomes :
              outcomes[i][1] = "ok" =>
                Carries(last'[3], last'[2], outcomes, i)]_vars

\* what the handler does: one throwing pipeline rejects the Promise.all, the
\* catch answers 500 with the message alone; without a throw every result
\* is carried
C39_AllOrNothing ==
  [][AnswersBatch =>
       LET outcomes == batchOutcomes(last'[2])
       IN IF Thrown(outcomes) # {}
          THEN /\ last'[3].status = 500
               /\ last'[3].body = [kind |-> "error", error |-> "rejected"]
          ELSE \A i \in DOMAIN outcomes :
                 Carries(last'[3], last'[2], outcomes, i)]_vars

(***************************************************************************)
(* The masked list of keys (listKeys, GET /keys).                          *)
(***************************************************************************)
MaxSecretLen == 14

\* String.prototype.slice(0, count) and slice(-count)
sliceFirst(chars, count) ==
  IF count >= Len(chars) THEN chars ELSE SubSeq(chars, 1, count)
sliceFromEnd(chars, count) ==
  IF count >= Len(chars) THEN chars
  ELSE SubSeq(chars, Len(chars) - count + 1, Len(chars))

\* k.key ? `${k.key.slice(0, 8)}...${k.key.slice(-4)}` : null
keyMasked(key) ==
  IF Truthy(key)
  THEN Text(sliceFirst(key[2], 8) \o <<".", ".", ".">> \o sliceFromEnd(key[2], 4))
  ELSE Null

\* listKeys: the entries of the pool with the key masked
listKeys(file) ==
  LET pool == loadPool(file)
  IN [i \in DOMAIN pool.keys |->
        [id |-> pool.keys[i].id,
         provider |-> pool.keys[i].provider,
         keyMasked |-> keyMasked(pool.keys[i].key),
         healthy |-> pool.keys[i].healthy,
         usageToday |-> usageToday(pool, pool.keys[i].id)]]

\* the characters secrets are written in, and the secrets that are added:
\* one of every length, in two spellings
Letters == <<"a", "b", "c", "d", "e">>
Secret(n, spelling) ==
  Text([i \in 1..n |-> Letters[((i * spelling) % Len(Letters)) + 1]])
Secrets == {Secret(n, spelling) : n \in 1..MaxSecretLen, spelling \in {1, 2}}

AddSecretKey ==
  /\ Len(Pool.keys) < MaxKeys
  /\ \E secret \in Secrets :
       \E r \in {addKey(poolFile, configDir, now, "google", secret, Null)} :
         /\ poolFile' = r[1]
         /\ last' = <<"addKey", r[2]>>
  /\ UNCHANGED <<calls, now, chainFile, configDir, tampered>>

ListKeys ==
  /\ last[1] # "listKeys"
  /\ \E listed \in {listKeys(poolFile)} :
       last' = <<"listKeys", Pool.keys, listed>>
  /\ UNCHANGED <<calls, now, chainFile, poolFile, configDir, tampered>>

NextKeys == MakeConfigDir \/ AddSecretKey \/ ListKeys
SpecKeys == Init /\ [][NextKeys]_vars

\* another secret of the same length that the mask does not tell from this
\* one: some character of the secret is not shown
Concealed(key) ==
  \E i \in DOMAIN key[2] :
    \E c \in {Letters[j] : j \in DOMAIN Letters} \ {key[2][i]} :
      keyMasked(Text([key[2] EXCEPT ![i] = c])) = keyMasked(key)

\* the mask as the entry of the list shows it
ConcealedIn(entry, key) ==
  \E i \in DOMAIN key[2] :
    \E c \in {Letters[j] : j \in DOMAIN Letters} \ {key[2][i]} :
      keyMasked(Text([key[2] EXCEPT ![i] = c])) = entry.keyMasked

\* C40: the list of keys shows no secret in full: for every stored secret,
\* of any length, at least one of its characters cannot be read from the
\* masked form.
C40_NeverWhole ==
  last[1] = "listKeys" =>
    \A i \in DOMAIN last[2] : ConcealedIn(last[3][i], last[2][i].key)

\* what the mask does: the first eight and the last four characters are
\* shown, so a secret is concealed in part exactly when it is longer than
\* twelve characters
C40_LongerThanTwelve ==
  last[1] = "listKeys" =>
    /\ Len(last[3]) = Len(last[2])
    /\ \A i \in DOMAIN last[2] :
         /\ last[3][i].id = last[2][i].id
         /\ ConcealedIn(last[3][i], last[2][i].key)
              <=> Len(last[2][i].key[2]) > 12

\* a secret of eight characters or fewer is printed whole before the dots
C40_ShortPrintedWhole ==
  last[1] = "listKeys" =>
    \A i \in DOMAIN last[2] :
      Len(last[2][i].key[2]) <= 8 =>
        sliceFirst(last[3][i].keyMasked[2], Len(last[2][i].key[2]))
          = last[2][i].key[2]

\* the list of a pool that holds a secret of twelve and one of thirteen
\* characters
C40_TwelveAndThirteen ==
  /\ last[1] = "listKeys"
  /\ Len(last[2]) = 2
  /\ Len(last[2][1].key[2]) = 12
  /\ Len(last[2][2].key[2]) = 13
  /\ ~ConcealedIn(last[3][1], last[2][1].key)
  /\ ConcealedIn(last[3][2], last[2][2].key)

====
